---- MODULE Spec2Model ----
(***************************************************************************)
(* Model of the ParkourGame score ledger (the Solidity contract            *)
(* ParkourGame) together with the FHE co-processor it drives, and of the   *)
(* client hook useParkourGame: checking a character, submitting a score,   *)
(* decrypting the player's score and fetching the leaderboard.             *)
(***************************************************************************)
EXTENDS Integers, Sequences, FiniteSets, TLC

\* ------------------------------------------------------------------ bounds
\* Number of successful submitScore transactions explored.
MaxSubmits == 3
\* Plaintext scores range over 0..MaxScore.
MaxScore == 1
\* Number of characters minted.
MaxTokens == 2
\* Successful submitScore transactions explored beside the client.
MaxClientSubmits == 1
\* Bits of an unsigned integer (256 in the contract).
UintWidth == 2
\* Days for which a decryption session is valid (the fixed policy value).
durationDays == 1
\* Days of the client's clock explored.
MaxClock == 2
\* Number of submitScore runs started by the client.
MaxIssues == 2
\* Number of games started in the game component.
MaxGames == 2
\* Number of mintCharacter runs started by the client.
MaxMintCalls == 2

\* ------------------------------------------------------------- value sets
Principals == {"A", "B"}
\* address(this): the ledger contract as a grantee of the ACL.
This == "this"
ZeroAddress == "0x0"
Scores == 0..MaxScore

\* Ciphertext handles.  A handle is derived from the operation that produced
\* it: an uninitialised euint32, a verified external input, the result of
\* FHE.gt, or the result of FHE.select.
ZeroHandle == <<"zero">>
InputHandle(k) == <<"in", k>>

VARIABLES
    _tokenCounter,       \* uint256 private _tokenCounter
    ownerTokens,         \* mapping(address => uint256[])
    playerScores,        \* mapping(address => PlayerScore)
    _players,            \* address[] private _players
    _maxEncryptedScore,  \* euint32 private _maxEncryptedScore
    _topPlayer,          \* address private _topPlayer
    _hasTopPlayer,       \* bool private _hasTopPlayer
    inputs,              \* co-processor: plaintext of each verified input
    acl,                 \* co-processor ACL: set of <<handle, grantee>>
    now,                 \* block.timestamp of the latest block
    txCount,             \* successful submitScore transactions so far
    lastCall,            \* history: the latest submitScore transaction
    submittedBy,         \* history: plaintexts each principal has submitted
    lastSubmitAt,        \* history: time of each principal's latest submission
    submitLog,           \* history: <<principal, time>> of each submission
    chainId,             \* hook parameter chainId (the wallet's current chain)
    ethersSigner,        \* hook parameter ethersSigner (the current account)
    instance,            \* hook parameter instance (TRUE when defined)
    parkourGameRef,      \* parkourGameRef.current.address
    isDecryptingRef,     \* isDecryptingRef.current
    isDecrypting,        \* useState isDecrypting
    playerScore,         \* useState playerScore
    message,             \* useState message
    decryptPc,           \* the await at which decryptScore's run() is suspended
    thisChainId,         \* decryptScore: const thisChainId
    thisParkourGameAddress, \* decryptScore: const thisParkourGameAddress
    thisEthersSigner,    \* decryptScore: const thisEthersSigner
    handleString,        \* decryptScore: const handleString
    sig,                 \* decryptScore: const sig
    decryptOutcome,      \* history: how the latest decryptScore run ended
    busyDecryptCall,     \* history: decryptScore was called during this run
    oracleCalls,         \* history: userDecrypt calls of the latest decryptScore run
    signatureStorage,    \* fhevmDecryptionSignatureStorage: the cached sessions
    clock,               \* the client's clock, in days
    pendingSig,          \* loadOrSign: the session whose signature is awaited
    hasCharacterState,   \* useState hasCharacter
    checksInFlight,      \* checkCharacter: addresses whose read is pending
    isSubmittingRef,     \* isSubmittingRef.current
    isSubmitting,        \* useState isSubmitting
    submitPc,            \* the await at which submitScore's run() is suspended
    submitArg,           \* submitScore: the parameter score
    submitChainId,       \* submitScore: const thisChainId
    submitParkourGameAddress, \* submitScore: const thisParkourGameAddress
    submitEthersSigner,  \* submitScore: const thisEthersSigner
    submitOutcome,       \* history: how the latest submitScore run ended
    busySubmitCall,      \* history: submitScore was called during this run
    txSent,              \* history: transactions sent by the latest submitScore run
    issueCount,          \* history: submitScore runs started so far
    mempool,             \* transactions sent by the client and not yet included
    appliedIssues,       \* history: <<sender, run>> of each included transaction
    leaderboard,         \* useState leaderboard
    isLoadingLeaderboard, \* useState isLoadingLeaderboard
    fetchPc,             \* the await at which fetchLeaderboard's run() is suspended
    fetchChainId,        \* fetchLeaderboard: const thisChainId
    fetchParkourGameAddress, \* fetchLeaderboard: const thisParkourGameAddress
    fetchPlayers,        \* fetchLeaderboard: const players
    fetchScores,         \* fetchLeaderboard: the results of scorePromises
    fetchOutcome,        \* history: how the latest fetchLeaderboard run ended
    fetchStartTx,        \* history: submissions applied when the run started
    olderFetch,          \* a fetchLeaderboard run overtaken by a later call
    isMinting,           \* useState isMinting
    renderedIsMinting,   \* isMinting as the mintCharacter callback in use captured it
    mintRuns,            \* the runs of mintCharacter, each at its await
    deployments,         \* deployments/<network>/ParkourGame.json: the address
    ParkourGameAddresses, \* the generated file abi/ParkourGameAddresses.ts
    gameScore,           \* component: gameState.score
    gameIsPlaying,       \* component: gameState.isPlaying
    gameIsGameOver,      \* component: gameState.isGameOver
    submittedScoreRef,   \* component: submittedScoreRef.current
    gameNo,              \* history: games started so far
    effectCalls,         \* history: handleSubmitScore calls of the effect, this game
    submittedGames       \* history: games whose score a submitScore run took

ledgerVars == <<playerScores, _players, _maxEncryptedScore, _topPlayer,
                _hasTopPlayer, inputs, acl>>
registryVars == <<_tokenCounter, ownerTokens>>
historyVars == <<txCount, lastCall, submittedBy, lastSubmitAt, submitLog>>
envVars == <<chainId, ethersSigner, instance, parkourGameRef>>
sessionVars == <<signatureStorage, clock, pendingSig>>
decryptVars == <<isDecryptingRef, isDecrypting, playerScore, decryptPc,
                 thisChainId, thisParkourGameAddress, thisEthersSigner,
                 handleString, sig, decryptOutcome, busyDecryptCall,
                 oracleCalls, sessionVars>>
characterVars == <<hasCharacterState, checksInFlight>>
submitVars == <<isSubmittingRef, isSubmitting, submitPc, submitArg,
                submitChainId, submitParkourGameAddress, submitEthersSigner,
                submitOutcome, busySubmitCall, txSent, issueCount, mempool,
                appliedIssues>>
fetchVars == <<leaderboard, isLoadingLeaderboard, fetchPc, fetchChainId,
               fetchParkourGameAddress, fetchPlayers, fetchScores,
               fetchOutcome, fetchStartTx>>
mintVars == <<isMinting, renderedIsMinting, mintRuns>>
generateVars == <<deployments, ParkourGameAddresses>>
gameVars == <<gameScore, gameIsPlaying, gameIsGameOver, submittedScoreRef,
              gameNo, effectCalls, submittedGames>>
overlapVars == <<olderFetch>>
appVars == <<mintVars, generateVars, gameVars, overlapVars>>
clientVars == <<envVars, message, decryptVars, characterVars, submitVars,
                fetchVars, appVars>>
chainVars == <<ledgerVars, registryVars, now, historyVars>>
vars == <<chainVars, clientVars>>

\* --------------------------------------------------- the FHE co-processor
\* Plaintext of a ciphertext, as the co-processor computes it.
RECURSIVE Plain(_, _)
Plain(ins, h) ==
    CASE h[1] = "zero" -> 0
      [] h[1] = "in"   -> ins[h[2]]
      [] h[1] = "sel"  -> IF Plain(ins, h[2][2]) > Plain(ins, h[2][3])
                          THEN Plain(ins, h[3])
                          ELSE Plain(ins, h[4])

\* FHE.gt(a, b): an encrypted boolean, a > b.
FHE_gt(a, b) == <<"gt", a, b>>

\* FHE.select(c, a, b): a ciphertext of (c ? a : b).
FHE_select(c, a, b) == <<"sel", c, a, b>>

\* FHE.fromExternal(encryptedScore, inputProof): reverts on a malformed proof,
\* otherwise returns the handle of the verified input.
FHE_fromExternal_unverified(ins, proofOk) ==
    [reverted |-> FALSE, handle |-> InputHandle(Len(ins) + 1)]
FHE_fromExternal(ins, proofOk) ==
    [reverted |-> ~proofOk, handle |-> InputHandle(Len(ins) + 1)]

\* FHE.allowThis(h) / FHE.allow(h, who)
FHE_allow(a, h, who) == a \cup {<<h, who>>}

\* -------------------------------------------------------------- helpers
Range(f) == {f[i] : i \in DOMAIN f}
SetMax(S) == CHOOSE x \in S : \A y \in S : y <= x

\* ------------------------------------------------- the Eligibility Registry
\* hasCharacter(player)
hasCharacter(player) == Len(ownerTokens[player]) > 0

\* mintCharacter(): a new token for msg.sender.
ApplyMintCharacter(sender) ==
    /\ _tokenCounter < MaxTokens
    /\ _tokenCounter' = _tokenCounter + 1
    /\ ownerTokens' = [ownerTokens EXCEPT ![sender] = Append(@, _tokenCounter + 1)]

MintCharacterTx(sender) ==
    /\ ApplyMintCharacter(sender)
    /\ UNCHANGED <<ledgerVars, now, historyVars, clientVars>>

\* ------------------------------------------------------- the Score Ledger
\* require(ownerTokens[msg.sender].length > 0, ...)
IsEligible_unchecked(sender) == TRUE
IsEligible(sender) == Len(ownerTokens[sender]) > 0

\* _players after the call: pushed on a first submission only.
PlayersAfter_alwaysPush(sender) == Append(_players, sender)
PlayersAfter(sender) ==
    IF ~playerScores[sender].exists
    THEN Append(_players, sender)
    ELSE _players

\* playerScores[msg.sender].encryptedScore after the call.
ScoreAfter_overwrite(sender, enc) == enc
ScoreAfter(sender, enc) ==
    IF ~playerScores[sender].exists
    THEN enc
    ELSE LET currentScore == playerScores[sender].encryptedScore
             isNewHigher == FHE_gt(enc, currentScore)
         IN  FHE_select(isNewHigher, enc, currentScore)

\* playerScores[msg.sender].timestamp after the call.
TimestampAfter_keepOld(sender, ts) ==
    IF playerScores[sender].exists THEN playerScores[sender].timestamp ELSE ts
TimestampAfter(sender, ts) == ts

\* _maxEncryptedScore after the call.
MaxAfter_firstTimeOnly(sender, enc) ==
    IF ~playerScores[sender].exists
    THEN IF ~_hasTopPlayer
         THEN enc
         ELSE FHE_select(FHE_gt(enc, _maxEncryptedScore), enc, _maxEncryptedScore)
    ELSE _maxEncryptedScore
MaxAfter_overwrite(sender, enc) == enc
MaxAfter(sender, enc) ==
    IF ~playerScores[sender].exists
    THEN IF ~_hasTopPlayer
         THEN enc
         ELSE LET isNewHigher == FHE_gt(enc, _maxEncryptedScore)
              IN  FHE_select(isNewHigher, enc, _maxEncryptedScore)
    ELSE LET isNewMax == FHE_gt(enc, _maxEncryptedScore)
         IN  FHE_select(isNewMax, enc, _maxEncryptedScore)

\* _topPlayer after the call: set with the first record, never afterwards.
TopPlayerAfter_latest(sender) == sender

TopPlayerAfter(sender) ==
    IF ~playerScores[sender].exists /\ ~_hasTopPlayer THEN sender ELSE _topPlayer

\* _hasTopPlayer after the call.
HasTopPlayerAfter(sender) ==
    IF ~playerScores[sender].exists /\ ~_hasTopPlayer THEN TRUE ELSE _hasTopPlayer

\* The grants at the end of submitScore.
GrantsAfter_noMaxGrant(sender, score, max) ==
    FHE_allow(FHE_allow(acl, score, This), score, sender)
GrantsAfter_alsoTopPlayer(sender, score, max) ==
    FHE_allow(FHE_allow(FHE_allow(FHE_allow(acl, score, This), score, sender),
                        max, This), score, _topPlayer)
GrantsAfter(sender, score, max) ==
    FHE_allow(FHE_allow(FHE_allow(acl, score, This), score, sender), max, This)

\* The state a reverted call leaves: the state before it.
Reverted(err) ==
    [reverted |-> TRUE, error |-> err,
     playerScores |-> playerScores, players |-> _players,
     max |-> _maxEncryptedScore, topPlayer |-> _topPlayer,
     hasTopPlayer |-> _hasTopPlayer, inputs |-> inputs, acl |-> acl]

\* submitScore(encryptedScore, inputProof) called by sender in a block of
\* timestamp ts; score is the plaintext inside encryptedScore.
submitScore(sender, score, proofOk, ts) ==
    IF ~IsEligible(sender) THEN Reverted("NotEligible")
    ELSE LET ext == FHE_fromExternal(inputs, proofOk) IN
    IF ext.reverted THEN Reverted("InvalidProof")
    ELSE LET enc == ext.handle
             sc  == ScoreAfter(sender, enc)
             mx  == MaxAfter(sender, enc)
         IN  [reverted |-> FALSE, error |-> "ok",
              playerScores |->
                  [playerScores EXCEPT ![sender] =
                      [encryptedScore |-> sc,
                       timestamp |-> TimestampAfter(sender, ts),
                       exists |-> TRUE]],
              players |-> PlayersAfter(sender),
              max |-> mx,
              topPlayer |-> TopPlayerAfter(sender),
              hasTopPlayer |-> HasTopPlayerAfter(sender),
              inputs |-> Append(inputs, score),
              acl |-> GrantsAfter(sender, sc, mx)]

\* history: no submitScore call yet / the fields a reverted call leaves unset
NoCall == [sender |-> ZeroAddress, score |-> 0, proofOk |-> TRUE, ts |-> 0,
           result |-> "none", prevTs |-> -1]

\* A submitScore transaction mined in a block dt after the block of the
\* latest successful submission (block timestamps never decrease).
ApplySubmitScore(sender, score, proofOk, dt) ==
    /\ txCount < MaxSubmits
    /\ LET ts == now + dt
           r  == submitScore(sender, score, proofOk, ts)
       IN  /\ playerScores' = r.playerScores
           /\ _players' = r.players
           /\ _maxEncryptedScore' = r.max
           /\ _topPlayer' = r.topPlayer
           /\ _hasTopPlayer' = r.hasTopPlayer
           /\ inputs' = r.inputs
           /\ acl' = r.acl
           /\ IF r.reverted
              THEN /\ lastCall' = [NoCall EXCEPT !.sender = sender,
                                                 !.proofOk = proofOk,
                                                 !.result = r.error]
                   /\ UNCHANGED <<now, txCount, submittedBy, lastSubmitAt,
                                   submitLog>>
              ELSE /\ lastCall' = [sender |-> sender, score |-> score,
                                   proofOk |-> proofOk, ts |-> ts,
                                   result |-> r.error,
                                   prevTs |-> IF playerScores[sender].exists
                                              THEN playerScores[sender].timestamp
                                              ELSE -1]
                   /\ now' = ts
                   /\ txCount' = txCount + 1
                   /\ submittedBy' = [submittedBy EXCEPT ![sender] = @ \cup {score}]
                   /\ lastSubmitAt' = [lastSubmitAt EXCEPT ![sender] = ts]
                   /\ submitLog' = Append(submitLog, <<sender, ts>>)

SubmitScoreTx(sender, score, proofOk, dt) ==
    /\ ApplySubmitScore(sender, score, proofOk, dt)
    /\ UNCHANGED <<registryVars, clientVars>>

\* Views of the ledger.
getPlayerScore(player) == playerScores[player]
getPlayerCount == Len(_players)
getAllPlayers == _players
getMaxEncryptedScore == _maxEncryptedScore

\* getTopPlayer(): the stored _topPlayer, with bytes32(0) in place of a handle.
getTopPlayer ==
    IF ~_hasTopPlayer \/ Len(_players) = 0
    THEN [topPlayer |-> ZeroAddress, maxScoreHandle |-> ZeroHandle]
    ELSE [topPlayer |-> _topPlayer, maxScoreHandle |-> ZeroHandle]

\* getLeaderboard(): the listed players that have a record, in the order of
\* _players, each with the timestamp of its record.
getLeaderboard ==
    LET valid == SelectSeq(_players, LAMBDA p : playerScores[p].exists)
    IN  [players |-> valid,
         timestamps |-> [i \in 1..Len(valid) |-> playerScores[valid[i]].timestamp]]

\* uint256 arithmetic, at a width of UintWidth bits.
UintMax == 2^UintWidth - 1

\* getLeaderboardRange: address player = _players[startIndex + i], for the
\* i-th entry of the result (counted from 1 here, from 0 in the contract).
RangePlayerAt_fromFirst(startIndex, i) == _players[i]
RangePlayerAt(startIndex, i) == _players[startIndex + i]

EmptyRange ==
    [reverted |-> FALSE, players |-> <<>>, encryptedScores |-> <<>>,
     timestamps |-> <<>>]

\* getLeaderboardRange(startIndex, count).  startIndex + count is a checked
\* uint256 addition: the call reverts when the sum does not fit.
getLeaderboardRange(startIndex, count) ==
    LET playerCount == Len(_players)
    IN  IF startIndex >= playerCount
        THEN EmptyRange
        ELSE IF startIndex + count > UintMax
        THEN [EmptyRange EXCEPT !.reverted = TRUE]
        ELSE LET endIndex == IF startIndex + count > playerCount
                             THEN playerCount
                             ELSE startIndex + count
                 actualCount == endIndex - startIndex
                 player(i) == RangePlayerAt(startIndex, i)
             IN  [reverted |-> FALSE,
                  players |-> [i \in 1..actualCount |-> player(i)],
                  encryptedScores |-> [i \in 1..actualCount |->
                                          playerScores[player(i)].encryptedScore],
                  timestamps |-> [i \in 1..actualCount |->
                                     playerScores[player(i)].timestamp]]

\* ------------------------------------------- the client: useParkourGame
Undefined == "undefined"
Localhost == "31337"
Sepolia == "11155111"
\* A chain with no entry in ParkourGameAddresses.
OtherChain == "1"
ChainIds == {Localhost, Sepolia, OtherChain}
SepoliaAddress == "0xE282329C84fe2fAeA688D0f40C00210A35df00bB"

\* The address table of abi/ParkourGameAddresses.ts as the repository holds
\* it, keyed by chainId.toString().
RepositoryAddresses ==
    [c \in {Localhost, Sepolia} |->
        IF c = Localhost
        THEN [address |-> Undefined, chainId |-> Localhost]
        ELSE [address |-> SepoliaAddress, chainId |-> Sepolia]]

getParkourGameByChainId_keepsZero(c) ==
    IF c = Undefined
    THEN [address |-> Undefined, chainId |-> Undefined]
    ELSE IF c \in DOMAIN ParkourGameAddresses
    THEN LET entry == ParkourGameAddresses[c]
         IN  IF entry.address = Undefined
             THEN [address |-> Undefined, chainId |-> c]
             ELSE [address |-> entry.address, chainId |-> entry.chainId]
    ELSE [address |-> Undefined, chainId |-> Undefined]

getParkourGameByChainId(c) ==
    IF c = Undefined
    THEN [address |-> Undefined, chainId |-> Undefined]
    ELSE IF c \in DOMAIN ParkourGameAddresses
    THEN LET entry == ParkourGameAddresses[c]
         IN  IF entry.address = Undefined \/ entry.address = ZeroAddress
             THEN [address |-> Undefined, chainId |-> c]
             ELSE [address |-> entry.address, chainId |-> entry.chainId]
    ELSE [address |-> Undefined, chainId |-> Undefined]

\* isDeployed of the hook: undefined without a chain id or without the chain
\* id in the returned info, otherwise Boolean(address && address !== zero).
isDeployed_definedMeansDeployed ==
    LET parkourGame == getParkourGameByChainId(chainId)
    IN  IF chainId = Undefined \/ parkourGame.chainId = Undefined
        THEN Undefined
        ELSE "true"

isDeployed ==
    LET parkourGame == getParkourGameByChainId(chainId)
    IN  IF chainId = Undefined \/ parkourGame.chainId = Undefined
        THEN Undefined
        ELSE IF parkourGame.address # Undefined
                /\ parkourGame.address # ZeroAddress
        THEN "true"
        ELSE "false"

\* contractAddress of the hook's return value.
contractAddress == getParkourGameByChainId(chainId).address

\* --------------------------------------------- the generated address file
Networks == {"localhost", "hardhat", "anvil", "sepolia"}
NETWORK_CHAIN_IDS == [n \in Networks |-> IF n = "sepolia" THEN Sepolia ELSE Localhost]
networkPriority == <<"localhost", "hardhat", "anvil", "sepolia">>
\* Object.entries(NETWORK_CHAIN_IDS): the keys in insertion order.
networkEntries == <<"hardhat", "anvil", "localhost", "sepolia">>

\* The address hardhat-deploy records for a deployment on a network.
DeploymentAddress(network) ==
    IF network = "sepolia" THEN SepoliaAddress ELSE "0x:" \o network

\* The deployments the repository's address file was generated from.
RepositoryDeployments ==
    [n \in Networks |-> IF n = "sepolia" THEN SepoliaAddress ELSE Undefined]

\* if (!addresses[chainIdStr]): no entry has been written for the chain id.
EntryUnset_always(addresses, chainIdStr) == TRUE

EntryUnset(addresses, chainIdStr) == chainIdStr \notin DOMAIN addresses

\* One iteration of either loop of generateAddressesFile.
AddEntry(addresses, deps, network) ==
    LET chainIdStr == NETWORK_CHAIN_IDS[network]
    IN  IF EntryUnset(addresses, chainIdStr)
        THEN [c \in DOMAIN addresses \cup {chainIdStr} |->
                 IF c = chainIdStr
                 THEN [address |-> deps[network], chainId |-> chainIdStr]
                 ELSE addresses[c]]
        ELSE addresses

RECURSIVE AddEntries(_, _, _)
AddEntries(addresses, deps, networks) ==
    IF networks = <<>> THEN addresses
    ELSE AddEntries(AddEntry(addresses, deps, Head(networks)), deps,
                    Tail(networks))

\* generateAddressesFile(deployments): the networks in priority order, then
\* the entries of NETWORK_CHAIN_IDS; an address that is empty is written as
\* undefined.
generateAddressesFile(deps) ==
    AddEntries(AddEntries(<<>>, deps, networkPriority), deps, networkEntries)

\* sameChain.current / sameSigner.current: does the argument equal the
\* wallet's current network / current signing identity.
sameChain(c) == c = chainId
sameSigner(signer) == signer = ethersSigner

\* The isStale closure of a run over its snapshot.
isStale_ignoresSigner(address, chain, signer) ==
    \/ address # parkourGameRef
    \/ ~sameChain(chain)

isStale(address, chain, signer) ==
    \/ address # parkourGameRef
    \/ ~sameChain(chain)
    \/ ~sameSigner(signer)

\* decryptScore: if (isStale()) before instance.userDecrypt is called.
StaleBeforeOracle_skipped == FALSE
StaleBeforeOracle ==
    isStale(thisParkourGameAddress, thisChainId, thisEthersSigner)

\* decryptScore: if (isStale()) after instance.userDecrypt has returned.
StaleAfterOracle_skipped == FALSE
StaleAfterOracle ==
    isStale(thisParkourGameAddress, thisChainId, thisEthersSigner)

NoSig == [userAddress |-> Undefined, contractAddresses |-> {},
          startTimestamp |-> 0, durationDays |-> 0]

\* The decryption oracle: the plaintext of a handle for a session whose user
\* and scoped contract both hold a grant on it; denied otherwise.
userDecrypt(h, session) ==
    IF /\ <<h, session.userAddress>> \in acl
       /\ SepoliaAddress \in session.contractAddresses
       /\ <<h, This>> \in acl
    THEN [denied |-> FALSE, value |-> Plain(inputs, h)]
    ELSE [denied |-> TRUE, value |-> 0]

\* The finally block of decryptScore's run(); the run's locals are dropped.
DecryptFinally_keepsRef ==
    /\ isDecryptingRef' = isDecryptingRef
    /\ isDecrypting' = FALSE
    /\ decryptPc' = "idle"
    /\ thisChainId' = Undefined
    /\ thisParkourGameAddress' = Undefined
    /\ thisEthersSigner' = Undefined
    /\ handleString' = ZeroHandle
    /\ sig' = NoSig
    /\ pendingSig' = NoSig
    /\ busyDecryptCall' = FALSE

DecryptFinally ==
    /\ isDecryptingRef' = FALSE
    /\ isDecrypting' = FALSE
    /\ decryptPc' = "idle"
    /\ thisChainId' = Undefined
    /\ thisParkourGameAddress' = Undefined
    /\ thisEthersSigner' = Undefined
    /\ handleString' = ZeroHandle
    /\ sig' = NoSig
    /\ pendingSig' = NoSig
    /\ busyDecryptCall' = FALSE

\* decryptScore: the isDecryptingRef.current test of the guard.
DecryptInFlight_ignored == FALSE
DecryptInFlight == isDecryptingRef

\* decryptScore(): the guard, the snapshot, and run() up to its first await.
DecryptScoreCall ==
    /\ busyDecryptCall' = (decryptPc # "idle")
    /\ IF \/ DecryptInFlight
          \/ getParkourGameByChainId(chainId).address = Undefined
          \/ ~instance
          \/ ethersSigner = Undefined
       THEN UNCHANGED <<isDecryptingRef, isDecrypting, playerScore, message,
                        decryptPc, thisChainId, thisParkourGameAddress,
                        thisEthersSigner, handleString, sig, decryptOutcome,
                        oracleCalls>>
       ELSE /\ isDecryptingRef' = TRUE
            /\ isDecrypting' = TRUE
            /\ message' = "Decrypting score..."
            /\ thisChainId' = chainId
            /\ thisParkourGameAddress' = getParkourGameByChainId(chainId).address
            /\ thisEthersSigner' = ethersSigner
            /\ decryptPc' = "getAddress"
            /\ decryptOutcome' = "running"
            /\ oracleCalls' = 0
            /\ UNCHANGED <<playerScore, handleString, sig>>
    /\ UNCHANGED <<chainVars, envVars, sessionVars, characterVars, appVars, submitVars,
                   fetchVars>>

\* await thisEthersSigner.getAddress() returns; contract.getPlayerScore is sent.
DecryptGetAddressReturns ==
    /\ decryptPc = "getAddress"
    /\ decryptPc' = "getPlayerScore"
    /\ UNCHANGED <<isDecryptingRef, isDecrypting, playerScore, message,
                   thisChainId, thisParkourGameAddress, thisEthersSigner,
                   handleString, sig, decryptOutcome, busyDecryptCall>>
    /\ UNCHANGED <<oracleCalls, chainVars, envVars, sessionVars, characterVars, appVars,
                   submitVars, fetchVars>>

\* decryptScore: if (!exists) on the record read from the contract.
RecordMissing_never(result) == FALSE
RecordMissing(result) == ~result.exists

\* await contract.getPlayerScore(userAddress) returns.
DecryptReadReturns ==
    /\ decryptPc = "getPlayerScore"
    /\ LET result == getPlayerScore(thisEthersSigner)
       IN  IF RecordMissing(result)
           THEN /\ message' = "No score found for this player"
                /\ decryptOutcome' = "noRecord"
                /\ DecryptFinally
                /\ UNCHANGED playerScore
           ELSE IF result.encryptedScore = ZeroHandle
           THEN /\ playerScore' = "0"
                /\ message' = "Score: 0"
                /\ decryptOutcome' = "zeroHandle"
                /\ DecryptFinally
           ELSE /\ handleString' = result.encryptedScore
                /\ decryptPc' = "loadOrSign"
                /\ UNCHANGED <<isDecryptingRef, isDecrypting, playerScore,
                               message, thisChainId, thisParkourGameAddress,
                               thisEthersSigner, sig, decryptOutcome,
                               busyDecryptCall, pendingSig>>
    /\ UNCHANGED <<oracleCalls, chainVars, envVars, signatureStorage, clock,
                   characterVars, appVars, submitVars, fetchVars>>

\* The arguments decryptScore passes to FhevmDecryptionSignature.loadOrSign:
\* [thisParkourGameAddress] and thisEthersSigner.
loadOrSignArgs_currentSigner ==
    [contractAddresses |-> {thisParkourGameAddress}, userAddress |-> ethersSigner]

loadOrSignArgs ==
    [contractAddresses |-> {thisParkourGameAddress},
     userAddress |-> thisEthersSigner]

\* loadOrSign: the session cached under the key (identity, scope), or none.
loadFromGenericStringStorage_anyUser(storage, userAddress, contractAddresses) ==
    IF storage = {} THEN NoSig ELSE CHOOSE s \in storage : TRUE

loadFromGenericStringStorage(storage, userAddress, contractAddresses) ==
    LET found == {s \in storage : /\ s.userAddress = userAddress
                                  /\ s.contractAddresses = contractAddresses}
    IN  IF found = {} THEN NoSig ELSE CHOOSE s \in found : TRUE

\* loadOrSign: a cached session is returned while its window has not elapsed.
isValid_neverExpires(session) == session # NoSig

isValid(session) ==
    /\ session # NoSig
    /\ clock < session.startTimestamp + session.durationDays

\* loadOrSign: the session of a new ceremony, bound to the identity, the
\* scope, the time at which the ceremony starts and the policy's duration.
newSession(userAddress, contractAddresses) ==
    [userAddress |-> userAddress, contractAddresses |-> contractAddresses,
     startTimestamp |-> clock, durationDays |-> durationDays]

\* loadOrSign: saving a signed session under its key.
saveToGenericStringStorage(storage, session) ==
    {s \in storage : \/ s.userAddress # session.userAddress
                     \/ s.contractAddresses # session.contractAddresses}
        \cup {session}

\* decryptScore from the return of loadOrSign with a session: the isStale()
\* check, then the call of instance.userDecrypt.
DecryptWithSession(session) ==
    IF StaleBeforeOracle
    THEN /\ message' = "Ignore decryption"
         /\ decryptOutcome' = "ignoredBeforeOracle"
         /\ DecryptFinally
         /\ UNCHANGED oracleCalls
    ELSE /\ sig' = session
         /\ oracleCalls' = oracleCalls + 1
         /\ pendingSig' = NoSig
         /\ message' = "Calling FHEVM userDecrypt..."
         /\ decryptPc' = "userDecrypt"
         /\ UNCHANGED <<isDecryptingRef, isDecrypting, thisChainId,
                        thisParkourGameAddress, thisEthersSigner,
                        handleString, decryptOutcome, busyDecryptCall>>

\* loadOrSign has read the cache: a cached session of the key that is still
\* valid is returned; otherwise the signature ceremony starts.
DecryptLoadReturns ==
    /\ decryptPc = "loadOrSign"
    /\ LET args == loadOrSignArgs
           cached == loadFromGenericStringStorage(signatureStorage,
                         args.userAddress, args.contractAddresses)
       IN  IF isValid(cached)
           THEN DecryptWithSession(cached)
           ELSE /\ pendingSig' = newSession(args.userAddress,
                                            args.contractAddresses)
                /\ decryptPc' = "signTypedData"
                /\ UNCHANGED <<isDecryptingRef, isDecrypting, message,
                               thisChainId, thisParkourGameAddress,
                               thisEthersSigner, handleString, sig,
                               decryptOutcome, busyDecryptCall, oracleCalls>>
    /\ UNCHANGED <<playerScore, signatureStorage, clock, chainVars, envVars,
                   characterVars, appVars, submitVars, fetchVars>>

\* The signature ceremony ends: signed, the session is saved and returned;
\* rejected, loadOrSign returns null and nothing is saved.
DecryptSignatureReturns(signed) ==
    /\ decryptPc = "signTypedData"
    /\ IF ~signed
       THEN /\ message' = "Unable to build FHEVM decryption signature"
            /\ decryptOutcome' = "noSignature"
            /\ DecryptFinally
            /\ UNCHANGED <<signatureStorage, oracleCalls>>
       ELSE /\ signatureStorage'
                  = saveToGenericStringStorage(signatureStorage, pendingSig)
            /\ DecryptWithSession(pendingSig)
    /\ UNCHANGED <<playerScore, clock, chainVars, envVars, characterVars, appVars,
                   submitVars, fetchVars>>

\* await instance.userDecrypt(...) returns the plaintext.  The continuation
\* runs to the end of run() in one turn: setMessage("Decryption completed!")
\* is overwritten by the message set after the isStale() check.
DecryptOracleReturns ==
    /\ decryptPc = "userDecrypt"
    /\ LET res == userDecrypt(handleString, sig)
       IN  /\ ~res.denied
           /\ IF StaleAfterOracle
              THEN /\ message' = "Ignore decryption"
                   /\ decryptOutcome' = "ignoredAfterOracle"
                   /\ UNCHANGED playerScore
              ELSE /\ playerScore' = ToString(res.value)
                   /\ message' = "Your score: " \o ToString(res.value)
                   /\ decryptOutcome' = "decrypted"
    /\ DecryptFinally
    /\ UNCHANGED <<oracleCalls, signatureStorage, clock, chainVars, envVars,
                   characterVars, appVars, submitVars, fetchVars>>

\* An awaited call of the run rejects: the catch block, then finally.
DecryptThrows_retries ==
    /\ decryptPc = "userDecrypt"
    /\ oracleCalls' = oracleCalls + 1
    /\ message' = "Decryption failed"
    /\ UNCHANGED <<isDecryptingRef, isDecrypting, playerScore, decryptPc,
                   thisChainId, thisParkourGameAddress, thisEthersSigner,
                   handleString, sig, decryptOutcome, busyDecryptCall,
                   sessionVars, chainVars, envVars, characterVars, appVars, submitVars,
                   fetchVars>>

DecryptThrows ==
    /\ decryptPc \in {"getAddress", "getPlayerScore", "loadOrSign",
                      "signTypedData", "userDecrypt"}
    /\ message' = "Decryption failed"
    /\ decryptOutcome' = "failed"
    /\ DecryptFinally
    /\ UNCHANGED <<playerScore, oracleCalls, signatureStorage, clock, chainVars,
                   envVars, characterVars, appVars, submitVars, fetchVars>>

\* ------------------------------------------------ client: fetchLeaderboard
\* scorePromises: the record read by contract.getPlayerScore for a player.
ScoreOf_maxHandle(player) ==
    [player |-> player,
     encryptedScore |-> getMaxEncryptedScore,
     timestamp |-> getPlayerScore(player).timestamp,
     exists |-> getPlayerScore(player).exists]

ScoreOf(player) ==
    [player |-> player,
     encryptedScore |-> getPlayerScore(player).encryptedScore,
     timestamp |-> getPlayerScore(player).timestamp,
     exists |-> getPlayerScore(player).exists]

\* playerScores.filter(ps => ps.exists)
validScores(scores) == SelectSeq(scores, LAMBDA ps : ps.exists)

\* The leaderboard entries of the valid scores; zero handles are skipped.
EntriesOf(valid) ==
    LET kept == SelectSeq(valid, LAMBDA ps : ps.encryptedScore # ZeroHandle)
    IN  [i \in 1..Len(kept) |->
            [address |-> kept[i].player,
             encryptedScoreHandle |-> kept[i].encryptedScore,
             timestamp |-> kept[i].timestamp]]

\* The comparator passed to entries.sort: most recent first.
compare_ascending(a, b) ==
    IF a.timestamp > b.timestamp THEN 1
    ELSE IF a.timestamp < b.timestamp THEN -1 ELSE 0

compare_byPlaintext(a, b) ==
    IF Plain(inputs, a.encryptedScoreHandle) > Plain(inputs, b.encryptedScoreHandle)
    THEN -1
    ELSE IF Plain(inputs, a.encryptedScoreHandle) < Plain(inputs, b.encryptedScoreHandle)
    THEN 1 ELSE 0

compare(a, b) ==
    IF a.timestamp > b.timestamp THEN -1
    ELSE IF a.timestamp < b.timestamp THEN 1 ELSE 0

\* Array.prototype.sort is stable: an entry is placed in front of the first
\* entry that the comparator orders after it, and behind all others.
RECURSIVE InsertSorted(_, _)
InsertSorted(sorted, e) ==
    IF sorted = <<>> THEN <<e>>
    ELSE IF compare(Head(sorted), e) > 0 THEN <<e>> \o sorted
    ELSE <<Head(sorted)>> \o InsertSorted(Tail(sorted), e)

RECURSIVE sort(_)
sort(entries) ==
    IF entries = <<>> THEN <<>>
    ELSE InsertSorted(sort(SubSeq(entries, 1, Len(entries) - 1)),
                      entries[Len(entries)])

\* entries.map((entry, index) => ({ ...entry, rank: index + 1 }))
rankedEntries(entries) ==
    [i \in 1..Len(entries) |->
        [address |-> entries[i].address,
         encryptedScoreHandle |-> entries[i].encryptedScoreHandle,
         timestamp |-> entries[i].timestamp,
         rank |-> i]]

\* The leaderboard that fetchLeaderboard builds from a list of records.
LeaderboardOf(scores) == rankedEntries(sort(EntriesOf(validScores(scores))))

\* The leaderboard built when every read of a run sees the same ledger state.
project ==
    LET players == getLeaderboard.players
    IN  LeaderboardOf([i \in 1..Len(players) |-> ScoreOf(players[i])])

\* The isStale closure of a fetchLeaderboard run: the signer plays no part.
FetchIsStale ==
    \/ fetchParkourGameAddress # parkourGameRef
    \/ ~sameChain(fetchChainId)

\* A scorePromises element that has not resolved yet.
PendingScore ==
    [player |-> Undefined, encryptedScore |-> ZeroHandle, timestamp |-> 0,
     exists |-> FALSE]

\* const players = result[0] of await contract.getLeaderboard().
FetchedPlayers_cached ==
    IF leaderboard # <<>>
    THEN [i \in 1..Len(leaderboard) |-> leaderboard[i].address]
    ELSE getLeaderboard.players

FetchedPlayers == getLeaderboard.players

\* The finally block of fetchLeaderboard's run(); the run's locals are dropped.
FetchFinally ==
    /\ isLoadingLeaderboard' = FALSE
    /\ fetchPc' = "idle"
    /\ fetchChainId' = Undefined
    /\ fetchParkourGameAddress' = Undefined
    /\ fetchPlayers' = <<>>
    /\ fetchScores' = <<>>
    /\ fetchStartTx' = 0

\* fetchLeaderboard(): the guard, the snapshot, and run() up to its first
\* await.  One run at a time is explored.
FetchLeaderboardCall ==
    /\ fetchPc = "idle"
    /\ IF getParkourGameByChainId(chainId).address = Undefined
       THEN UNCHANGED <<fetchVars, message>>
       ELSE /\ isLoadingLeaderboard' = TRUE
            /\ message' = "Loading leaderboard..."
            /\ fetchChainId' = chainId
            /\ fetchParkourGameAddress' = getParkourGameByChainId(chainId).address
            /\ fetchPc' = "getLeaderboard"
            /\ fetchOutcome' = "running"
            /\ fetchStartTx' = txCount
            /\ UNCHANGED <<leaderboard, fetchPlayers, fetchScores>>
    /\ UNCHANGED <<chainVars, envVars, decryptVars, characterVars, appVars, submitVars>>

\* await contract.getLeaderboard() returns.  An empty list clears the
\* leaderboard before isStale() is consulted; otherwise, with a fresh
\* snapshot, one getPlayerScore read is issued per listed player.
FetchListReturns ==
    /\ fetchPc = "getLeaderboard"
    /\ LET players == FetchedPlayers
       IN  IF Len(players) = 0
           THEN /\ leaderboard' = <<>>
                /\ message' = "No players in leaderboard yet"
                /\ fetchOutcome' = "noPlayers"
                /\ FetchFinally
           ELSE IF FetchIsStale
           THEN /\ message' = "Ignore leaderboard fetch"
                /\ fetchOutcome' = "ignored"
                /\ FetchFinally
                /\ UNCHANGED leaderboard
           ELSE /\ message' = "Fetching " \o ToString(Len(players))
                                  \o " player scores..."
                /\ fetchPlayers' = players
                /\ fetchScores' = [i \in 1..Len(players) |-> PendingScore]
                /\ fetchPc' = "getPlayerScore"
                /\ UNCHANGED <<leaderboard, isLoadingLeaderboard, fetchChainId,
                               fetchParkourGameAddress, fetchOutcome,
                               fetchStartTx>>
    /\ UNCHANGED <<chainVars, envVars, decryptVars, characterVars, appVars, submitVars>>

\* The continuation of await Promise.all(scorePromises), run in the turn in
\* which the last read resolves: from validScores to setLeaderboard.
FetchBuild(scores) ==
    LET valid == validScores(scores)
        entries == EntriesOf(valid)
    IN  IF Len(valid) = 0
        THEN /\ leaderboard' = <<>>
             /\ message' = "No valid scores found"
             /\ fetchOutcome' = "noValidScores"
        ELSE IF FetchIsStale
        THEN /\ message' = "Ignore leaderboard fetch"
             /\ fetchOutcome' = "ignored"
             /\ UNCHANGED leaderboard
        ELSE IF Len(entries) = 0
        THEN /\ leaderboard' = <<>>
             /\ message' = "No valid scores found"
             /\ fetchOutcome' = "noEntries"
        ELSE /\ leaderboard' = rankedEntries(sort(entries))
             /\ message' = "Leaderboard loaded: " \o ToString(Len(entries))
                               \o " players"
             /\ fetchOutcome' = "loaded"

\* await contract.getPlayerScore(player) returns for the i-th listed player.
FetchScoreReturns(i) ==
    /\ fetchPc = "getPlayerScore"
    /\ i \in 1..Len(fetchPlayers)
    /\ fetchScores[i] = PendingScore
    /\ LET scores == [fetchScores EXCEPT ![i] = ScoreOf(fetchPlayers[i])]
       IN  IF \E k \in 1..Len(scores) : scores[k] = PendingScore
           THEN /\ fetchScores' = scores
                /\ UNCHANGED <<leaderboard, isLoadingLeaderboard, fetchPc,
                               fetchChainId, fetchParkourGameAddress,
                               fetchPlayers, fetchOutcome, fetchStartTx,
                               message>>
           ELSE /\ FetchBuild(scores)
                /\ FetchFinally
    /\ UNCHANGED <<chainVars, envVars, decryptVars, characterVars, appVars, submitVars>>

\* An awaited read of the run rejects: the catch block, then finally.
FetchThrows ==
    /\ fetchPc \in {"getLeaderboard", "getPlayerScore"}
    /\ message' = "Failed to load leaderboard"
    /\ fetchOutcome' = "failed"
    /\ FetchFinally
    /\ UNCHANGED leaderboard
    /\ UNCHANGED <<chainVars, envVars, decryptVars, characterVars, appVars, submitVars>>

\* ----------------------------------- client: overlapping fetchLeaderboard
\* fetchLeaderboard has no in-flight guard: a call made while a run is
\* suspended at an await starts a second run with a snapshot of its own.
\* fetchPc and the other fetch variables then hold the run of the later call,
\* olderFetch the locals of the run that was already in flight.  Two runs at a
\* time are explored.
NoFetch ==
    [pc |-> "idle", chainId |-> Undefined, address |-> Undefined,
     players |-> <<>>, scores |-> <<>>]

\* The isStale closure of the older run.
OlderIsStale ==
    \/ olderFetch.address # parkourGameRef
    \/ ~sameChain(olderFetch.chainId)

\* fetchLeaderboard() called while the run of an earlier call is in flight.
FetchLeaderboardCallAgain ==
    /\ fetchPc # "idle"
    /\ olderFetch.pc = "idle"
    /\ IF getParkourGameByChainId(chainId).address = Undefined
       THEN UNCHANGED <<fetchVars, message, olderFetch>>
       ELSE /\ olderFetch' = [pc |-> fetchPc, chainId |-> fetchChainId,
                              address |-> fetchParkourGameAddress,
                              players |-> fetchPlayers,
                              scores |-> fetchScores]
            /\ isLoadingLeaderboard' = TRUE
            /\ message' = "Loading leaderboard..."
            /\ fetchChainId' = chainId
            /\ fetchParkourGameAddress' = getParkourGameByChainId(chainId).address
            /\ fetchPc' = "getLeaderboard"
            /\ fetchOutcome' = "running"
            /\ fetchStartTx' = txCount
            /\ fetchPlayers' = <<>>
            /\ fetchScores' = <<>>
            /\ UNCHANGED leaderboard
    /\ UNCHANGED <<chainVars, envVars, decryptVars, characterVars, mintVars,
                   generateVars, gameVars, submitVars>>

\* The finally block of the older run.
OlderFetchFinally ==
    /\ isLoadingLeaderboard' = FALSE
    /\ olderFetch' = NoFetch

\* await contract.getLeaderboard() returns to the older run.
OlderFetchListReturns ==
    /\ olderFetch.pc = "getLeaderboard"
    /\ LET players == FetchedPlayers
       IN  IF Len(players) = 0
           THEN /\ leaderboard' = <<>>
                /\ message' = "No players in leaderboard yet"
                /\ OlderFetchFinally
           ELSE IF OlderIsStale
           THEN /\ message' = "Ignore leaderboard fetch"
                /\ OlderFetchFinally
                /\ UNCHANGED leaderboard
           ELSE /\ message' = "Fetching " \o ToString(Len(players))
                                  \o " player scores..."
                /\ olderFetch' =
                       [olderFetch EXCEPT
                           !.pc = "getPlayerScore",
                           !.players = players,
                           !.scores = [i \in 1..Len(players) |-> PendingScore]]
                /\ UNCHANGED <<leaderboard, isLoadingLeaderboard>>
    /\ UNCHANGED <<fetchPc, fetchChainId, fetchParkourGameAddress, fetchPlayers,
                   fetchScores, fetchOutcome, fetchStartTx>>
    /\ UNCHANGED <<chainVars, envVars, decryptVars, characterVars, mintVars,
                   generateVars, gameVars, submitVars>>

\* The continuation of the older run's await Promise.all(scorePromises).
OlderFetchBuild(scores) ==
    LET valid == validScores(scores)
        entries == EntriesOf(valid)
    IN  IF Len(valid) = 0
        THEN /\ leaderboard' = <<>>
             /\ message' = "No valid scores found"
        ELSE IF OlderIsStale
        THEN /\ message' = "Ignore leaderboard fetch"
             /\ UNCHANGED leaderboard
        ELSE IF Len(entries) = 0
        THEN /\ leaderboard' = <<>>
             /\ message' = "No valid scores found"
        ELSE /\ leaderboard' = rankedEntries(sort(entries))
             /\ message' = "Leaderboard loaded: " \o ToString(Len(entries))
                               \o " players"

\* await contract.getPlayerScore(player) returns to the older run.
OlderFetchScoreReturns(i) ==
    /\ olderFetch.pc = "getPlayerScore"
    /\ i \in 1..Len(olderFetch.players)
    /\ olderFetch.scores[i] = PendingScore
    /\ LET scores == [olderFetch.scores EXCEPT
                          ![i] = ScoreOf(olderFetch.players[i])]
       IN  IF \E k \in 1..Len(scores) : scores[k] = PendingScore
           THEN /\ olderFetch' = [olderFetch EXCEPT !.scores = scores]
                /\ UNCHANGED <<leaderboard, isLoadingLeaderboard, message>>
           ELSE /\ OlderFetchBuild(scores)
                /\ OlderFetchFinally
    /\ UNCHANGED <<fetchPc, fetchChainId, fetchParkourGameAddress, fetchPlayers,
                   fetchScores, fetchOutcome, fetchStartTx>>
    /\ UNCHANGED <<chainVars, envVars, decryptVars, characterVars, mintVars,
                   generateVars, gameVars, submitVars>>

\* An awaited read of the older run rejects: the catch block, then finally.
OlderFetchThrows ==
    /\ olderFetch.pc \in {"getLeaderboard", "getPlayerScore"}
    /\ message' = "Failed to load leaderboard"
    /\ OlderFetchFinally
    /\ UNCHANGED <<leaderboard, fetchPc, fetchChainId, fetchParkourGameAddress,
                   fetchPlayers, fetchScores, fetchOutcome, fetchStartTx>>
    /\ UNCHANGED <<chainVars, envVars, decryptVars, characterVars, mintVars,
                   generateVars, gameVars, submitVars>>

\* ------------------------------------------------- client: checkCharacter
\* checkCharacter(): without a contract address or a signer the flag is
\* cleared; otherwise contract.hasCharacter(userAddress) is read.
CheckCharacterCall ==
    /\ IF \/ getParkourGameByChainId(chainId).address = Undefined
          \/ ethersSigner = Undefined
       THEN /\ hasCharacterState' = FALSE
            /\ UNCHANGED checksInFlight
       ELSE /\ checksInFlight' = checksInFlight \cup {ethersSigner}
            /\ UNCHANGED hasCharacterState
    /\ UNCHANGED <<chainVars, envVars, message, decryptVars, submitVars,
                   fetchVars, appVars>>

\* await contract.hasCharacter(userAddress) returns; setHasCharacter(hasChar).
CheckCharacterReturns(userAddress) ==
    /\ userAddress \in checksInFlight
    /\ checksInFlight' = checksInFlight \ {userAddress}
    /\ hasCharacterState' = hasCharacter(userAddress)
    /\ UNCHANGED <<chainVars, envVars, message, decryptVars, submitVars,
                   fetchVars, appVars>>

\* The read rejects: the catch block clears the flag.
CheckCharacterThrows(userAddress) ==
    /\ userAddress \in checksInFlight
    /\ checksInFlight' = checksInFlight \ {userAddress}
    /\ hasCharacterState' = FALSE
    /\ UNCHANGED <<chainVars, envVars, message, decryptVars, submitVars,
                   fetchVars, appVars>>

\* -------------------------------------------------- client: mintCharacter
\* mintCharacter: the isMinting test of the guard, on the value of the state
\* that the callback captured when it was created.
MintInFlight_ignored == FALSE

MintInFlight == renderedIsMinting

\* mintCharacter(): the guard, then contract.mintCharacter() is called with
\* the signer and the contract address that the callback captured.
MintCharacterCall ==
    /\ IF \/ MintInFlight
          \/ getParkourGameByChainId(chainId).address = Undefined
          \/ ethersSigner = Undefined
       THEN UNCHANGED <<isMinting, mintRuns, message>>
       ELSE /\ isMinting' = TRUE
            /\ message' = "Minting character..."
            /\ mintRuns' = Append(mintRuns,
                   [pc |-> "mintCharacter", signer |-> ethersSigner,
                    address |-> getParkourGameByChainId(chainId).address])
    /\ UNCHANGED <<renderedIsMinting, generateVars, overlapVars, gameVars, chainVars, envVars,
                   decryptVars, characterVars, submitVars, fetchVars>>

\* mintCharacter(), while fewer than cap runs have been started.
BoundedMintCharacterCall(cap) ==
    /\ Len(mintRuns) < cap
    /\ MintCharacterCall

\* The component re-renders: useCallback creates mintCharacter anew over the
\* current value of isMinting.
MintRender ==
    /\ renderedIsMinting # isMinting
    /\ renderedIsMinting' = isMinting
    /\ UNCHANGED <<isMinting, mintRuns, message, generateVars, overlapVars, gameVars, chainVars,
                   envVars, decryptVars, characterVars, submitVars, fetchVars>>

\* await contract.mintCharacter() returns the pending transaction of run i.
MintTxSent(i) ==
    /\ i \in 1..Len(mintRuns)
    /\ mintRuns[i].pc = "mintCharacter"
    /\ mintRuns' = [mintRuns EXCEPT ![i].pc = "wait"]
    /\ message' = "Transaction sent"
    /\ UNCHANGED <<isMinting, renderedIsMinting, generateVars, overlapVars, gameVars, chainVars,
                   envVars, decryptVars, characterVars, submitVars, fetchVars>>

\* The transaction of run i is included and await tx.wait() returns;
\* checkCharacter() is called and reads contract.hasCharacter.
MintTxMined(i) ==
    /\ i \in 1..Len(mintRuns)
    /\ mintRuns[i].pc = "wait"
    /\ ApplyMintCharacter(mintRuns[i].signer)
    /\ mintRuns' = [mintRuns EXCEPT ![i].pc = "checkCharacter"]
    /\ message' = "Character minted successfully!"
    /\ UNCHANGED <<isMinting, renderedIsMinting, generateVars, overlapVars, gameVars, ledgerVars, now,
                   historyVars, envVars, decryptVars, characterVars,
                   submitVars, fetchVars>>

\* The finally block of mintCharacter.
MintFinally(i) ==
    /\ isMinting' = FALSE
    /\ mintRuns' = [mintRuns EXCEPT ![i].pc = "done"]

\* await checkCharacter() returns in run i: the read has set hasCharacter
\* (to false if it was rejected); then finally.
MintCheckReturns(i, readOk) ==
    /\ i \in 1..Len(mintRuns)
    /\ mintRuns[i].pc = "checkCharacter"
    /\ hasCharacterState' = (readOk /\ hasCharacter(mintRuns[i].signer))
    /\ MintFinally(i)
    /\ UNCHANGED <<renderedIsMinting, message, checksInFlight, generateVars, overlapVars,
                   gameVars, chainVars, envVars, decryptVars, submitVars, fetchVars>>

\* contract.mintCharacter() or tx.wait() of run i rejects: catch, finally.
MintThrows(i) ==
    /\ i \in 1..Len(mintRuns)
    /\ mintRuns[i].pc \in {"mintCharacter", "wait"}
    /\ message' = "Mint failed"
    /\ MintFinally(i)
    /\ UNCHANGED <<renderedIsMinting, generateVars, overlapVars, gameVars, chainVars, envVars,
                   decryptVars, characterVars, submitVars, fetchVars>>

\* ------------------------------------------------- the deployment tooling
\* hardhat-deploy records the deployment of ParkourGame on a network.
Deploy(network, address) ==
    /\ deployments[network] # address
    /\ deployments' = [deployments EXCEPT ![network] = address]
    /\ UNCHANGED <<ParkourGameAddresses, mintVars, overlapVars, gameVars, chainVars, envVars, message,
                   decryptVars, characterVars, submitVars, fetchVars>>

\* main(): the address file is generated from the recorded deployments.  The
\* frontend is built from the file before it starts.
GenerateFiles ==
    /\ chainId = Undefined
    /\ ParkourGameAddresses' = generateAddressesFile(deployments)
    /\ UNCHANGED <<deployments, mintVars, overlapVars, gameVars, chainVars, envVars, message,
                   decryptVars, characterVars, submitVars, fetchVars>>

\* ---------------------------------------------------- client: submitScore
\* The finally block of submitScore's run(); the run's locals are dropped.
SubmitFinally_keepsRef ==
    /\ isSubmittingRef' = isSubmittingRef
    /\ isSubmitting' = FALSE
    /\ submitPc' = "idle"
    /\ submitArg' = 0
    /\ submitChainId' = Undefined
    /\ submitParkourGameAddress' = Undefined
    /\ submitEthersSigner' = Undefined
    /\ busySubmitCall' = FALSE

SubmitFinally ==
    /\ isSubmittingRef' = FALSE
    /\ isSubmitting' = FALSE
    /\ submitPc' = "idle"
    /\ submitArg' = 0
    /\ submitChainId' = Undefined
    /\ submitParkourGameAddress' = Undefined
    /\ submitEthersSigner' = Undefined
    /\ busySubmitCall' = FALSE

\* submitScore: the isSubmittingRef.current test of the guard.
SubmitInFlight_ignored == FALSE
SubmitInFlight == isSubmittingRef

\* submitScore: if (isStale()) after input.encrypt() has returned.
StaleBeforeSend_skipped == FALSE
StaleBeforeSend ==
    isStale(submitParkourGameAddress, submitChainId, submitEthersSigner)

\* submitScore(score): the guard, the character test, the snapshot, and
\* run() up to its first await.
submitScoreBody(score) ==
    /\ busySubmitCall' = (submitPc # "idle")
    /\ IF \/ SubmitInFlight
          \/ getParkourGameByChainId(chainId).address = Undefined
          \/ ~instance
          \/ ethersSigner = Undefined
       THEN UNCHANGED <<isSubmittingRef, isSubmitting, submitPc, submitArg,
                        submitChainId, submitParkourGameAddress,
                        submitEthersSigner, submitOutcome, message, txSent,
                        issueCount>>
       ELSE IF ~hasCharacterState
       THEN /\ message' = "You need to mint a character first!"
            /\ submitOutcome' = "noCharacter"
            /\ UNCHANGED <<isSubmittingRef, isSubmitting, submitPc, submitArg,
                           submitChainId, submitParkourGameAddress,
                           submitEthersSigner, txSent, issueCount>>
       ELSE /\ issueCount' = issueCount + 1
            /\ isSubmittingRef' = TRUE
            /\ isSubmitting' = TRUE
            /\ message' = "Encrypting and submitting score "
                              \o ToString(score) \o "..."
            /\ submitArg' = score
            /\ submitChainId' = chainId
            /\ submitParkourGameAddress' = getParkourGameByChainId(chainId).address
            /\ submitEthersSigner' = ethersSigner
            /\ submitPc' = "setTimeout"
            /\ submitOutcome' = "running"
            /\ txSent' = 0
    /\ UNCHANGED <<mempool, appliedIssues>>
    /\ UNCHANGED <<chainVars, envVars, decryptVars, characterVars, fetchVars>>

\* A call of submitScore from outside the game component.
SubmitScoreCall(score) ==
    /\ submitScoreBody(score)
    /\ UNCHANGED appVars

\* submitScore(score), while fewer than cap runs have been started or a run
\* is in flight.
BoundedSubmitScoreCall(score, cap) ==
    /\ issueCount < cap \/ isSubmittingRef
    /\ SubmitScoreCall(score)

\* await new Promise(setTimeout 100) returns; the encrypted input is built
\* for (thisParkourGameAddress, thisEthersSigner.address) and encrypt() called.
SubmitTimeoutReturns ==
    /\ submitPc = "setTimeout"
    /\ submitPc' = "encrypt"
    /\ UNCHANGED <<isSubmittingRef, isSubmitting, submitArg, submitChainId,
                   submitParkourGameAddress, submitEthersSigner, submitOutcome,
                   busySubmitCall, message, txSent, issueCount, mempool,
                   appliedIssues>>
    /\ UNCHANGED <<chainVars, envVars, decryptVars, characterVars, appVars, fetchVars>>

\* await input.encrypt() returns; with a fresh snapshot contract.submitScore
\* is called with the signer of the snapshot.
SubmitEncryptReturns ==
    /\ submitPc = "encrypt"
    /\ IF StaleBeforeSend
       THEN /\ message' = "Ignore score submission"
            /\ submitOutcome' = "ignored"
            /\ SubmitFinally
            /\ UNCHANGED txSent
       ELSE /\ message' = "Submitting encrypted score to contract..."
            /\ submitPc' = "submitScore"
            /\ txSent' = txSent + 1
            /\ UNCHANGED <<isSubmittingRef, isSubmitting, submitArg,
                           submitChainId, submitParkourGameAddress,
                           submitEthersSigner, submitOutcome, busySubmitCall>>
    /\ UNCHANGED <<issueCount, mempool, appliedIssues>>
    /\ UNCHANGED <<chainVars, envVars, decryptVars, characterVars, appVars, fetchVars>>

\* The transaction of a run: sent by thisEthersSigner to the contract at
\* thisParkourGameAddress, with the score encrypted by
\* createEncryptedInput(thisParkourGameAddress, thisEthersSigner.address).
PendingTx ==
    [sender |-> submitEthersSigner,
     to |-> submitParkourGameAddress,
     encryptedFor |-> <<submitParkourGameAddress, submitEthersSigner>>,
     score |-> submitArg,
     issue |-> issueCount]

\* await contract.submitScore(handle, proof) returns the pending transaction,
\* which carries the score of the run, encrypted for the signer of the
\* snapshot.  A call the contract would revert is rejected when it is sent.
SubmitTxSent ==
    /\ submitPc = "submitScore"
    /\ IsEligible(submitEthersSigner)
    /\ message' = "Transaction sent"
    /\ submitPc' = "pending"
    /\ mempool' = Append(mempool, PendingTx)
    /\ UNCHANGED <<isSubmittingRef, isSubmitting, submitArg, submitChainId,
                   submitParkourGameAddress, submitEthersSigner, submitOutcome,
                   busySubmitCall, txSent, issueCount, appliedIssues>>
    /\ UNCHANGED <<chainVars, envVars, decryptVars, characterVars, appVars, fetchVars>>

\* The transactions of one account are included in the order of their
\* nonces, the order in which the account sent them.
NextOfSender_anyPending(i) == i \in 1..Len(mempool)

NextOfSender(i) ==
    /\ i \in 1..Len(mempool)
    /\ \A j \in 1..(i - 1) : mempool[j].sender # mempool[i].sender

\* A pending transaction is included in a block: the ledger runs submitScore
\* for the transaction's sender with the proof made for that sender.  If its
\* run still awaits tx.wait(), the receipt becomes available.
MineTx(i) ==
    /\ NextOfSender(i)
    /\ LET tx == mempool[i]
       IN  /\ ApplySubmitScore(tx.sender, tx.score,
                                tx.encryptedFor = <<tx.to, tx.sender>>, 1)
           /\ mempool' = [k \in 1..(Len(mempool) - 1) |->
                             IF k < i THEN mempool[k] ELSE mempool[k + 1]]
           /\ appliedIssues' = Append(appliedIssues, <<tx.sender, tx.issue>>)
           /\ IF submitPc = "pending" /\ tx.issue = issueCount
              THEN submitPc' = "wait"
              ELSE UNCHANGED submitPc
    /\ UNCHANGED <<isSubmittingRef, isSubmitting, submitArg, submitChainId,
                   submitParkourGameAddress, submitEthersSigner, submitOutcome,
                   busySubmitCall, message, txSent, issueCount>>
    /\ UNCHANGED <<registryVars, envVars, decryptVars, characterVars, appVars, fetchVars>>

SubmitTxMined(i) ==
    /\ txCount < MaxClientSubmits
    /\ MineTx(i)

\* await tx.wait() returns the receipt; the trailing isStale() test guards
\* nothing.
SubmitWaitReturns ==
    /\ submitPc = "wait"
    /\ message' = "Score submitted successfully! Status: 1"
    /\ submitOutcome' = "submitted"
    /\ SubmitFinally
    /\ UNCHANGED <<txSent, issueCount, mempool, appliedIssues, chainVars,
                   envVars, decryptVars, characterVars, appVars, fetchVars>>

\* An awaited call of the run rejects: the catch block, then finally.
SubmitThrows_resends ==
    /\ submitPc = "pending"
    /\ message' = "Submit score failed"
    /\ mempool' = Append(mempool, PendingTx)
    /\ txSent' = txSent + 1
    /\ UNCHANGED <<isSubmittingRef, isSubmitting, submitPc, submitArg,
                   submitChainId, submitParkourGameAddress, submitEthersSigner,
                   submitOutcome, busySubmitCall, issueCount, appliedIssues,
                   chainVars, envVars, decryptVars, characterVars, appVars, fetchVars>>

SubmitThrows ==
    /\ submitPc \in {"encrypt", "submitScore", "pending", "wait"}
    /\ message' = "Submit score failed"
    /\ submitOutcome' = "failed"
    /\ SubmitFinally
    /\ UNCHANGED <<txSent, issueCount, mempool, appliedIssues, chainVars,
                   envVars, decryptVars, characterVars, appVars, fetchVars>>

\* ------------------------------------------- the component: ParkourGame
\* submittedScoreRef.current = null
NoScore == -1

\* The condition of the auto-submit effect, over the values of the latest
\* render.
AutoSubmitPending ==
    /\ gameIsGameOver
    /\ gameScore > 0
    /\ ~isSubmitting
    /\ submittedScoreRef # gameScore

\* handleSubmitScore(): game.submitScore(gameState.score) for a finished game
\* with a positive score.
handleSubmitScore ==
    /\ IF gameScore > 0 /\ gameIsGameOver
       THEN submitScoreBody(gameScore)
       ELSE UNCHANGED <<submitVars, message, chainVars, envVars, decryptVars,
                        characterVars, fetchVars>>
    /\ submittedGames' = IF ~isSubmittingRef /\ isSubmittingRef'
                         THEN submittedGames \cup {gameNo}
                         ELSE submittedGames

\* The auto-submit effect: submittedScoreRef.current = gameState.score.
MarkerAfterEffect_unset == submittedScoreRef

MarkerAfterEffect == gameScore

\* The auto-submit effect runs after a render in which its condition holds.
AutoSubmitEffect ==
    /\ AutoSubmitPending
    /\ submittedScoreRef' = MarkerAfterEffect
    /\ effectCalls' = effectCalls + 1
    /\ handleSubmitScore
    /\ UNCHANGED <<gameScore, gameIsPlaying, gameIsGameOver, gameNo, mintVars,
                   generateVars, overlapVars>>

\* The Submit Score button, shown for a finished game and disabled while
\* submitting or for a score of 0.  The effects of a render have run before
\* the user's next event is handled.
SubmitButton ==
    /\ gameIsGameOver /\ ~isSubmitting /\ gameScore # 0
    /\ ~AutoSubmitPending
    /\ handleSubmitScore
    /\ UNCHANGED <<gameScore, gameIsPlaying, gameIsGameOver, submittedScoreRef,
                   gameNo, effectCalls, mintVars, generateVars, overlapVars>>

\* startGame(), from Start Game, Play Again or the space bar: without a
\* character nothing happens; the marker of the submitted score is kept.
MarkerAfterStart_reset == NoScore

MarkerAfterStart == submittedScoreRef

startGame ==
    /\ ~gameIsPlaying
    /\ ~AutoSubmitPending
    /\ IF ~hasCharacterState
       THEN UNCHANGED gameVars
       ELSE /\ gameScore' = 0
            /\ gameIsPlaying' = TRUE
            /\ gameIsGameOver' = FALSE
            /\ submittedScoreRef' = MarkerAfterStart
            /\ gameNo' = gameNo + 1
            /\ effectCalls' = 0
            /\ UNCHANGED submittedGames
    /\ UNCHANGED <<mintVars, generateVars, overlapVars, chainVars, envVars, message,
                   decryptVars, characterVars, submitVars, fetchVars>>

\* startGame(), while fewer than cap games have been started.
BoundedStartGame(cap) ==
    /\ gameNo < cap
    /\ startGame

\* A frame of the game loop without a collision: the score grows by one.
GameFrame ==
    /\ gameIsPlaying /\ ~gameIsGameOver
    /\ gameScore < MaxScore
    /\ gameScore' = gameScore + 1
    /\ UNCHANGED <<gameIsPlaying, gameIsGameOver, submittedScoreRef, gameNo,
                   effectCalls, submittedGames, mintVars, generateVars, overlapVars,
                   chainVars, envVars, message, decryptVars, characterVars,
                   submitVars, fetchVars>>

\* A frame of the game loop with a collision: the game is over.
GameCollision ==
    /\ gameIsPlaying /\ ~gameIsGameOver
    /\ gameIsPlaying' = FALSE
    /\ gameIsGameOver' = TRUE
    /\ UNCHANGED <<gameScore, submittedScoreRef, gameNo, effectCalls,
                   submittedGames, mintVars, generateVars, overlapVars, chainVars, envVars,
                   message, decryptVars, characterVars, submitVars, fetchVars>>

\* resetGame(), from the Reset Game button of a finished game.
resetGame ==
    /\ gameIsGameOver
    /\ ~AutoSubmitPending
    /\ gameScore' = 0
    /\ gameIsPlaying' = FALSE
    /\ gameIsGameOver' = FALSE
    /\ submittedScoreRef' = NoScore
    /\ UNCHANGED <<gameNo, effectCalls, submittedGames, mintVars, generateVars, overlapVars,
                   chainVars, envVars, message, decryptVars, characterVars,
                   submitVars, fetchVars>>

\* ------------------------------------------------ client: the environment
\* The wallet moves to another network; the hook re-renders and useMemo
\* stores the new contract info in parkourGameRef.
SwitchChain(c) ==
    /\ c # chainId
    /\ chainId' = c
    /\ parkourGameRef' = getParkourGameByChainId(c).address
    /\ IF getParkourGameByChainId(c).address # Undefined
       THEN message' = ""
       ELSE IF c # Undefined /\ getParkourGameByChainId(c).chainId = c
       THEN message' = "ParkourGame deployment not found"
       ELSE UNCHANGED message
    /\ UNCHANGED <<ethersSigner, instance, decryptVars, characterVars, appVars,
                   submitVars, fetchVars, chainVars>>

\* The wallet moves to another account, or disconnects.
SwitchAccount(signer) ==
    /\ signer # ethersSigner
    /\ ethersSigner' = signer
    /\ UNCHANGED <<chainId, instance, parkourGameRef, message, decryptVars,
                   characterVars, appVars, submitVars, fetchVars, chainVars>>

\* The FHEVM instance becomes available, or is dropped.
SetInstance(b) ==
    /\ b # instance
    /\ instance' = b
    /\ UNCHANGED <<chainId, ethersSigner, parkourGameRef, message, decryptVars,
                   characterVars, appVars, submitVars, fetchVars, chainVars>>

\* ------------------------------------------------------------ the system
Init ==
    /\ _tokenCounter = 0
    /\ ownerTokens = [p \in Principals |-> <<>>]
    /\ playerScores = [p \in Principals |->
           [encryptedScore |-> ZeroHandle, timestamp |-> 0, exists |-> FALSE]]
    /\ _players = <<>>
    /\ _maxEncryptedScore = ZeroHandle
    /\ _topPlayer = ZeroAddress
    /\ _hasTopPlayer = FALSE
    /\ inputs = <<>>
    /\ acl = {}
    /\ now = 0
    /\ txCount = 0
    /\ lastCall = NoCall
    /\ submittedBy = [p \in Principals |-> {}]
    /\ lastSubmitAt = [p \in Principals |-> -1]
    /\ submitLog = <<>>
    /\ chainId = Undefined
    /\ ethersSigner = Undefined
    /\ instance = FALSE
    /\ parkourGameRef = Undefined
    /\ isDecryptingRef = FALSE
    /\ isDecrypting = FALSE
    /\ playerScore = Undefined
    /\ message = ""
    /\ decryptPc = "idle"
    /\ thisChainId = Undefined
    /\ thisParkourGameAddress = Undefined
    /\ thisEthersSigner = Undefined
    /\ handleString = ZeroHandle
    /\ sig = NoSig
    /\ decryptOutcome = "none"
    /\ busyDecryptCall = FALSE
    /\ oracleCalls = 0
    /\ txSent = 0
    /\ issueCount = 0
    /\ mempool = <<>>
    /\ appliedIssues = <<>>
    /\ signatureStorage = {}
    /\ clock = 0
    /\ pendingSig = NoSig
    /\ hasCharacterState = FALSE
    /\ checksInFlight = {}
    /\ isSubmittingRef = FALSE
    /\ isSubmitting = FALSE
    /\ submitPc = "idle"
    /\ submitArg = 0
    /\ submitChainId = Undefined
    /\ submitParkourGameAddress = Undefined
    /\ submitEthersSigner = Undefined
    /\ submitOutcome = "none"
    /\ busySubmitCall = FALSE
    /\ leaderboard = <<>>
    /\ isLoadingLeaderboard = FALSE
    /\ fetchPc = "idle"
    /\ fetchChainId = Undefined
    /\ fetchParkourGameAddress = Undefined
    /\ fetchPlayers = <<>>
    /\ fetchScores = <<>>
    /\ fetchOutcome = "none"
    /\ fetchStartTx = 0
    /\ isMinting = FALSE
    /\ renderedIsMinting = FALSE
    /\ mintRuns = <<>>
    /\ deployments = RepositoryDeployments
    /\ ParkourGameAddresses = RepositoryAddresses
    /\ gameScore = 0
    /\ gameIsPlaying = FALSE
    /\ gameIsGameOver = FALSE
    /\ submittedScoreRef = NoScore
    /\ gameNo = 0
    /\ effectCalls = 0
    /\ submittedGames = {}
    /\ olderFetch = NoFetch

Next ==
    \/ \E p \in Principals : MintCharacterTx(p)
    \/ \E p \in Principals, s \in Scores, ok \in BOOLEAN, dt \in 0..1 :
           SubmitScoreTx(p, s, ok, dt)

Spec == Init /\ [][Next]_vars

\* The client against the ledger: the wallet's environment, the ledger's
\* transactions and the steps of decryptScore.
ClientMint(p) ==
    /\ ~hasCharacter(p)
    /\ MintCharacterTx(p)

ClientLedgerTx(p, s) ==
    /\ txCount < MaxClientSubmits
    /\ SubmitScoreTx(p, s, TRUE, 1)

NextClient ==
    \/ \E p \in Principals : ClientMint(p)
    \/ \E p \in Principals, s \in Scores : ClientLedgerTx(p, s)
    \/ \E c \in ChainIds \cup {Undefined} : SwitchChain(c)
    \/ \E a \in Principals \cup {Undefined} : SwitchAccount(a)
    \/ \E b \in BOOLEAN : SetInstance(b)
    \/ DecryptScoreCall
    \/ DecryptGetAddressReturns
    \/ DecryptReadReturns
    \/ DecryptLoadReturns
    \/ \E signed \in BOOLEAN : DecryptSignatureReturns(signed)
    \/ DecryptOracleReturns
    \/ DecryptThrows

SpecClient == Init /\ [][NextClient]_vars

\* A day passes on the client's clock.
Tick ==
    /\ clock < MaxClock
    /\ clock' = clock + 1
    /\ UNCHANGED <<chainVars, envVars, message, isDecryptingRef, isDecrypting,
                   playerScore, decryptPc, thisChainId, thisParkourGameAddress,
                   thisEthersSigner, handleString, sig, decryptOutcome,
                   busyDecryptCall, oracleCalls, signatureStorage, pendingSig,
                   characterVars, appVars, submitVars, fetchVars>>

\* The client's decryption flow over time: the steps of decryptScore with the
\* session cache, the wallet changing account and network, submissions to
\* the ledger (the submitted plaintext plays no part in the sessions), and
\* the days passing.
SessionLedgerTx(p) ==
    /\ txCount < MaxClientSubmits + 1
    /\ SubmitScoreTx(p, MaxScore, TRUE, 1)

NextSession ==
    \/ \E p \in Principals : ClientMint(p)
    \/ \E p \in Principals : SessionLedgerTx(p)
    \/ \E c \in DOMAIN ParkourGameAddresses : SwitchChain(c)
    \/ \E a \in Principals : SwitchAccount(a)
    \/ SetInstance(TRUE)
    \/ Tick
    \/ DecryptScoreCall
    \/ DecryptGetAddressReturns
    \/ DecryptReadReturns
    \/ DecryptLoadReturns
    \/ \E signed \in BOOLEAN : DecryptSignatureReturns(signed)
    \/ DecryptOracleReturns
    \/ DecryptThrows

SpecSession == Init /\ [][NextSession]_vars

\* The client's submission flow against the ledger: the wallet's environment
\* (moving between the networks listed in ParkourGameAddresses), character
\* minting and checking, and the steps of submitScore.
NextSubmit ==
    \/ \E p \in Principals : ClientMint(p)
    \/ \E c \in DOMAIN ParkourGameAddresses : SwitchChain(c)
    \/ \E a \in Principals \cup {Undefined} : SwitchAccount(a)
    \/ \E b \in BOOLEAN : SetInstance(b)
    \/ CheckCharacterCall
    \/ \E a \in Principals : CheckCharacterReturns(a)
    \/ \E a \in Principals : CheckCharacterThrows(a)
    \/ \E score \in Scores : BoundedSubmitScoreCall(score, MaxClientSubmits)
    \/ SubmitTimeoutReturns
    \/ SubmitEncryptReturns
    \/ SubmitTxSent
    \/ \E i \in 1..MaxClientSubmits : SubmitTxMined(i)
    \/ SubmitWaitReturns
    \/ SubmitThrows

SpecSubmit == Init /\ [][NextSubmit]_vars

\* The client's two guarded runs side by side: the steps of submitScore and
\* of decryptScore in the session of one player: characters are minted and
\* checked, and the wallet connects to Sepolia with the player's account.
NextRuns ==
    \/ \E p \in Principals : ClientMint(p)
    \/ SwitchChain(Sepolia)
    \/ SwitchAccount("A")
    \/ SetInstance(TRUE)
    \/ CheckCharacterCall
    \/ \E a \in Principals : CheckCharacterReturns(a)
    \/ \E score \in Scores : BoundedSubmitScoreCall(score, MaxIssues)
    \/ SubmitTimeoutReturns
    \/ SubmitEncryptReturns
    \/ SubmitTxSent
    \/ \E i \in 1..MaxIssues : SubmitTxMined(i)
    \/ SubmitWaitReturns
    \/ SubmitThrows
    \/ DecryptScoreCall
    \/ DecryptGetAddressReturns
    \/ DecryptReadReturns
    \/ DecryptLoadReturns
    \/ \E signed \in BOOLEAN : DecryptSignatureReturns(signed)
    \/ DecryptOracleReturns
    \/ DecryptThrows

SpecRuns == Init /\ [][NextRuns]_vars

\* The submissions of one client over time: the steps of submitScore with the
\* transactions it leaves pending, character minting and checking, and the
\* wallet connecting to Sepolia and changing account.
OrderTxMined(i) ==
    /\ txCount < MaxClientSubmits + 1
    /\ MineTx(i)

NextOrder ==
    \/ \E p \in Principals : ClientMint(p)
    \/ SwitchChain(Sepolia)
    \/ \E a \in Principals : SwitchAccount(a)
    \/ SetInstance(TRUE)
    \/ CheckCharacterCall
    \/ \E a \in Principals : CheckCharacterReturns(a)
    \/ \E score \in Scores : BoundedSubmitScoreCall(score, MaxIssues)
    \/ SubmitTimeoutReturns
    \/ SubmitEncryptReturns
    \/ SubmitTxSent
    \/ \E i \in 1..MaxIssues : OrderTxMined(i)
    \/ SubmitWaitReturns
    \/ SubmitThrows

SpecOrder == Init /\ [][NextOrder]_vars

\* The client's leaderboard flow against the ledger: the wallet moving
\* between the networks listed in ParkourGameAddresses, minting, submissions
\* to the ledger (the submitted plaintext plays no part in the flow), and the
\* steps of fetchLeaderboard.
FetchLedgerTx(p, dt) ==
    /\ txCount < MaxClientSubmits + 1
    /\ SubmitScoreTx(p, 0, TRUE, dt)

NextFetch ==
    \/ \E p \in Principals : ClientMint(p)
    \/ \E p \in Principals, dt \in 0..1 : FetchLedgerTx(p, dt)
    \/ \E c \in DOMAIN ParkourGameAddresses : SwitchChain(c)
    \/ FetchLeaderboardCall
    \/ FetchListReturns
    \/ \E i \in 1..Cardinality(Principals) : FetchScoreReturns(i)
    \/ FetchThrows

SpecFetch == Init /\ [][NextFetch]_vars

\* The mintCharacter runs of a client whose wallet changes chain and account.
NextMint ==
    \/ \E c \in DOMAIN ParkourGameAddresses : SwitchChain(c)
    \/ \E p \in Principals : SwitchAccount(p)
    \/ BoundedMintCharacterCall(MaxMintCalls)
    \/ MintRender
    \/ \E i \in 1..MaxMintCalls : MintTxSent(i)
    \/ \E i \in 1..MaxMintCalls : MintTxMined(i)
    \/ \E i \in 1..MaxMintCalls, readOk \in BOOLEAN : MintCheckReturns(i, readOk)
    \/ \E i \in 1..MaxMintCalls : MintThrows(i)

SpecMint == Init /\ [][NextMint]_vars

\* fetchLeaderboard calls that overlap, beside a ledger that the players
\* write to.
NextOverlap ==
    \/ \E p \in Principals : ClientMint(p)
    \/ \E p \in Principals : FetchLedgerTx(p, 1)
    \/ \E c \in DOMAIN ParkourGameAddresses : SwitchChain(c)
    \/ FetchLeaderboardCall
    \/ FetchLeaderboardCallAgain
    \/ FetchListReturns
    \/ \E i \in 1..Cardinality(Principals) : FetchScoreReturns(i)
    \/ FetchThrows
    \/ OlderFetchListReturns
    \/ \E i \in 1..Cardinality(Principals) : OlderFetchScoreReturns(i)
    \/ OlderFetchThrows

SpecOverlap == Init /\ [][NextOverlap]_vars

\* One fetchLeaderboard run at a time on Sepolia, against a ledger to which
\* the players keep submitting, each submission in a later block.
TornLedgerTx(p) ==
    /\ txCount < MaxClientSubmits + 2
    /\ SubmitScoreTx(p, 0, TRUE, 1)

NextTorn ==
    \/ \E p \in Principals : ClientMint(p)
    \/ \E p \in Principals : TornLedgerTx(p)
    \/ SwitchChain(Sepolia)
    \/ FetchLeaderboardCall
    \/ FetchListReturns
    \/ \E i \in 1..Cardinality(Principals) : FetchScoreReturns(i)
    \/ FetchThrows

SpecTorn == Init /\ [][NextTorn]_vars

\* The client's reads against a ledger that other players write to: the
\* steps of decryptScore and of fetchLeaderboard in the session of one
\* player, while characters are minted and scores submitted.
NextReads ==
    \/ \E p \in Principals : ClientMint(p)
    \/ \E p \in Principals, s \in Scores : ClientLedgerTx(p, s)
    \/ SwitchChain(Sepolia)
    \/ \E a \in Principals : SwitchAccount(a)
    \/ SetInstance(TRUE)
    \/ DecryptScoreCall
    \/ DecryptGetAddressReturns
    \/ DecryptReadReturns
    \/ DecryptLoadReturns
    \/ \E signed \in BOOLEAN : DecryptSignatureReturns(signed)
    \/ DecryptOracleReturns
    \/ DecryptThrows
    \/ FetchLeaderboardCall
    \/ FetchListReturns
    \/ \E i \in 1..Cardinality(Principals) : FetchScoreReturns(i)
    \/ FetchThrows

SpecReads == Init /\ [][NextReads]_vars

\* The frontend built from a generated address file: deployments are
\* recorded and the file generated before the client starts; then the wallet
\* connects and moves between networks, and the four operations of the hook
\* are called.
DeployBeforeBuild(network, address) ==
    /\ chainId = Undefined
    /\ Deploy(network, address)

\* The wallet connects to a network, or moves to another one, in a frontend
\* built from the file generated from the recorded deployments.
SwitchChainOfBuild(c) ==
    /\ ParkourGameAddresses = generateAddressesFile(deployments)
    /\ SwitchChain(c)

NextDeployed ==
    \/ \E n \in {"localhost", "sepolia"}, a \in {Undefined, ZeroAddress} :
           DeployBeforeBuild(n, a)
    \/ \E n \in {"localhost", "sepolia"} :
           DeployBeforeBuild(n, DeploymentAddress(n))
    \/ GenerateFiles
    \/ ClientMint("A")
    \/ \E c \in ChainIds : SwitchChainOfBuild(c)
    \/ SwitchAccount("A")
    \/ SetInstance(TRUE)
    \/ CheckCharacterCall
    \/ CheckCharacterReturns("A")
    \/ BoundedSubmitScoreCall(MaxScore, 1)
    \/ SubmitTimeoutReturns
    \/ SubmitThrows
    \/ DecryptScoreCall
    \/ DecryptThrows
    \/ FetchLeaderboardCall
    \/ FetchThrows
    \/ BoundedMintCharacterCall(1)
    \/ MintRender
    \/ MintThrows(1)

SpecDeployed == Init /\ [][NextDeployed]_vars

\* Deployments on any of the known networks, the generation of the address
\* file, and a frontend built from it.
NextGenerate ==
    \/ \E n \in Networks :
           \E a \in {Undefined, DeploymentAddress(n)} : DeployBeforeBuild(n, a)
    \/ GenerateFiles
    \/ \E c \in ChainIds : SwitchChainOfBuild(c)

SpecGenerate == Init /\ [][NextGenerate]_vars

\* The two guarded runs of one player while the wallet moves between the
\* networks of the address file: the steps of the runs are taken as long as
\* one is possible, since every awaited call returns or throws.
SubmitRunStep ==
    \/ SubmitTimeoutReturns
    \/ SubmitEncryptReturns
    \/ SubmitTxSent
    \/ \E i \in 1..MaxIssues : SubmitTxMined(i)
    \/ SubmitWaitReturns
    \/ SubmitThrows

DecryptRunStep ==
    \/ DecryptGetAddressReturns
    \/ DecryptReadReturns
    \/ DecryptLoadReturns
    \/ \E signed \in BOOLEAN : DecryptSignatureReturns(signed)
    \/ DecryptOracleReturns
    \/ DecryptThrows

NextFlags ==
    \/ ClientMint("A")
    \/ \E c \in DOMAIN ParkourGameAddresses : SwitchChain(c)
    \/ SwitchAccount("A")
    \/ SetInstance(TRUE)
    \/ CheckCharacterCall
    \/ CheckCharacterReturns("A")
    \/ BoundedSubmitScoreCall(MaxScore, MaxIssues)
    \/ DecryptScoreCall
    \/ SubmitRunStep
    \/ DecryptRunStep

SpecFlags ==
    /\ Init /\ [][NextFlags]_vars
    /\ WF_vars(SubmitRunStep)
    /\ WF_vars(DecryptRunStep)

\* The game component over the hook: a player with a character connects to
\* Sepolia and plays; finished games are submitted by the auto-submit effect
\* or with the Submit Score button.
GameSubmitButton ==
    /\ issueCount < MaxIssues
    /\ SubmitButton

GameStep ==
    \/ BoundedStartGame(MaxGames)
    \/ GameFrame
    \/ GameCollision
    \/ resetGame
    \/ AutoSubmitEffect
    \/ GameSubmitButton

GameSubmitStep ==
    \/ SubmitTimeoutReturns
    \/ SubmitEncryptReturns
    \/ SubmitTxSent
    \/ \E i \in 1..MaxIssues : OrderTxMined(i)
    \/ SubmitWaitReturns

NextGame ==
    \/ ClientMint("A")
    \/ SwitchChain(Sepolia)
    \/ SwitchAccount("A")
    \/ SetInstance(TRUE)
    \/ CheckCharacterCall
    \/ CheckCharacterReturns("A")
    \/ GameStep
    \/ GameSubmitStep
    \/ SubmitThrows

SpecGame == Init /\ [][NextGame]_vars

\* The same, with the scheduling the code relies on: an effect whose
\* condition holds after a render runs, and an awaited call of a run returns.
SpecGameFair ==
    /\ SpecGame
    /\ WF_vars(AutoSubmitEffect)
    /\ WF_vars(GameSubmitStep)

\* ================================================================ claims
Submitters == {p \in Principals : submittedBy[p] # {}}
AllSubmitted == UNION {submittedBy[p] : p \in Principals}
StoredPlain(p) == Plain(inputs, playerScores[p].encryptedScore)
MaxPlain == Plain(inputs, _maxEncryptedScore)

\* C1: a principal with no minted character never gets a ScoreRecord, and
\* every submitScore call it makes, first or later, fails with NotEligible.
C1_NotEligibleGate ==
    /\ \A p \in Principals :
           ~hasCharacter(p) =>
               /\ ~playerScores[p].exists
               /\ p \notin Range(_players)
               /\ submittedBy[p] = {}
    /\ (lastCall.result # "none" /\ ~hasCharacter(lastCall.sender)) =>
           lastCall.result = "NotEligible"

\* C1 witness: an ineligible principal's call was rejected while another
\* principal already holds a record, and the rejected caller has none.
C1_Witness ==
    /\ lastCall.result = "NotEligible"
    /\ lastCall.proofOk
    /\ txCount >= 1
    /\ ~playerScores[lastCall.sender].exists

\* C2: the plaintext of a principal's stored ciphertext is the maximum of
\* the plaintexts that principal has successfully submitted.
C2_StoredIsOwnMax ==
    \A p \in Principals :
        /\ playerScores[p].exists <=> submittedBy[p] # {}
        /\ playerScores[p].exists => StoredPlain(p) = SetMax(submittedBy[p])

\* C2 witness: a principal re-submitted a lower score and keeps the higher one.
C2_Witness ==
    /\ lastCall.result = "ok"
    /\ lastCall.prevTs >= 0
    /\ lastCall.score < StoredPlain(lastCall.sender)

\* C3: a principal's stored timestamp is the time of its latest successful
\* submission, whether or not that submission raised the score.
C3_TimestampIsLatest ==
    \A p \in Principals :
        playerScores[p].exists => playerScores[p].timestamp = lastSubmitAt[p]

\* C3 witness: a later, lower re-submission moved the timestamp forward.
C3_Witness ==
    /\ lastCall.result = "ok"
    /\ lastCall.prevTs >= 0
    /\ lastCall.prevTs < lastCall.ts
    /\ lastCall.score < StoredPlain(lastCall.sender)
    /\ playerScores[lastCall.sender].timestamp = lastCall.ts

\* C4: the plaintext of MaxState is the maximum of all plaintexts submitted
\* so far by any principal; it is a function of the set of submitted values
\* alone, hence the same for every order of the same submissions.
C4_MaxIsGlobalMax ==
    /\ _hasTopPlayer <=> AllSubmitted # {}
    /\ _hasTopPlayer => MaxPlain = SetMax(AllSubmitted)

\* C4 witness: two principals have submitted, one of them twice, and the
\* maximum was set by a submission other than the very first one.
C4_Witness ==
    /\ Submitters = Principals
    /\ txCount >= 3
    /\ MaxPlain > inputs[1]
    /\ _maxEncryptedScore[1] = "sel"

\* C5: hasValue of MaxState never returns to false and the plaintext of
\* MaxState never decreases in any step.
C5_MaxMonotone ==
    [][ _hasTopPlayer =>
            /\ _hasTopPlayer'
            /\ Plain(inputs', _maxEncryptedScore') >= Plain(inputs, _maxEncryptedScore)
      ]_vars

\* C5 witness: a submission below the current maximum was applied.
C5_Witness ==
    /\ lastCall.result = "ok"
    /\ txCount >= 2
    /\ lastCall.score < MaxPlain

\* C6: a principal appears at most once in the player list, the list holds
\* exactly the principals with a ScoreRecord, and getPlayerCount is the
\* number of distinct principals that have successfully submitted.
C6_OneRecordPerPrincipal ==
    /\ \A i, j \in DOMAIN _players : _players[i] = _players[j] => i = j
    /\ \A p \in Principals : playerScores[p].exists <=> p \in Range(getAllPlayers)
    /\ getPlayerCount = Cardinality(Submitters)

\* C6 witness: a repeat submission has happened and two principals are listed.
C6_Witness ==
    /\ getPlayerCount = 2
    /\ txCount >= 3
    /\ lastCall.result = "ok"
    /\ lastCall.prevTs >= 0

\* C7: every existing ScoreRecord's ciphertext is granted to the contract
\* itself and to the record's owner, and MaxState's ciphertext, when set, is
\* granted to the contract itself.
C7_GrantsOnReachable ==
    /\ \A p \in Principals :
           playerScores[p].exists =>
               /\ <<playerScores[p].encryptedScore, This>> \in acl
               /\ <<playerScores[p].encryptedScore, p>> \in acl
    /\ _hasTopPlayer => <<_maxEncryptedScore, This>> \in acl

\* C7 witness: MaxState holds a select result that is no principal's stored
\* ciphertext, and a record holds a select result of a re-submission.
C7_Witness ==
    /\ _hasTopPlayer
    /\ _maxEncryptedScore[1] = "sel"
    /\ \A p \in Principals : playerScores[p].encryptedScore # _maxEncryptedScore
    /\ \E p \in Principals : playerScores[p].encryptedScore[1] = "sel"

\* C8: a submitScore call from an ineligible principal or with a malformed
\* proof fails and leaves the player list, every ScoreRecord, MaxState and
\* the grant set exactly as they were.
C8_FailedSubmitChangesNothing ==
    [][ (lastCall' # lastCall
           /\ (~lastCall'.proofOk \/ ~hasCharacter(lastCall'.sender))) =>
            /\ lastCall'.result \in {"NotEligible", "InvalidProof"}
            /\ UNCHANGED ledgerVars
      ]_vars

\* C8 witness: a call with a malformed proof by an eligible principal that
\* already holds a record was rejected.
C8_Witness ==
    /\ lastCall.result = "InvalidProof"
    /\ playerScores[lastCall.sender].exists
    /\ _hasTopPlayer

\* The context of the wallet differs from the snapshot of the decryptScore run.
DecryptContextChanged ==
    \/ ethersSigner # thisEthersSigner
    \/ chainId # thisChainId
    \/ parkourGameRef # thisParkourGameAddress

\* C9: when the decryption oracle returns while the identity, the network or
\* the configured contract differs from the run's snapshot, the plaintext is
\* discarded: playerScore keeps its value and only "Ignore decryption" is
\* reported.
C9_StaleResultDiscarded ==
    [][ (/\ decryptPc = "userDecrypt"
         /\ decryptPc' = "idle"
         /\ decryptOutcome' # "failed"
         /\ DecryptContextChanged) =>
            /\ playerScore' = playerScore
            /\ decryptOutcome' = "ignoredAfterOracle"
            /\ message' = "Ignore decryption"
      ]_vars

\* C9 witness: a returned plaintext was discarded and playerScore still
\* holds the value of an earlier run.
C9_Witness ==
    /\ decryptOutcome = "ignoredAfterOracle"
    /\ message = "Ignore decryption"
    /\ playerScore # Undefined
    /\ decryptPc = "idle"

\* C10: when the session is about to be used and the current identity,
\* network or contract differs from the run's snapshot, no oracle call is
\* made: the run ends without touching playerScore.
C10_NoOracleCallWhenStale ==
    [][ (decryptPc \in {"loadOrSign", "signTypedData"} /\ DecryptContextChanged) =>
            /\ decryptPc' \in {"loadOrSign", "signTypedData", "idle"}
            /\ playerScore' = playerScore
            /\ (decryptPc' = "idle" => decryptOutcome' # "decrypted")
      ]_vars

\* C10 witness: a run that obtained its session under a changed context
\* ended before the oracle was called.
C10_Witness ==
    /\ decryptOutcome = "ignoredBeforeOracle"
    /\ message = "Ignore decryption"
    /\ decryptPc = "idle"

decryptProgramState ==
    <<isDecryptingRef, isDecrypting, playerScore, message, decryptPc,
      thisChainId, thisParkourGameAddress, thisEthersSigner, handleString,
      sig>>

\* C13: a decryptScore call made while a run is outstanding starts nothing:
\* the outstanding run keeps its position and its snapshot (so no contract
\* read, signature request or oracle call is issued for the new call), no
\* error outcome or message is produced, and the ledger is untouched.
C13_BusyDecryptCallIsNoOp ==
    [][ (decryptPc # "idle" /\ ~busyDecryptCall /\ busyDecryptCall') =>
            /\ UNCHANGED decryptProgramState
            /\ UNCHANGED decryptOutcome
            /\ UNCHANGED <<chainVars, envVars>>
      ]_vars

\* C13 witness: decryptScore was called while a run was waiting for the
\* decryption oracle, and that run is still the one outstanding.
C13_Witness ==
    /\ busyDecryptCall
    /\ decryptPc = "userDecrypt"
    /\ isDecryptingRef

\* The program state of the submitScore flow, without its history variables.
submitProgramState ==
    <<isSubmittingRef, isSubmitting, message, submitPc, submitArg,
      submitChainId, submitParkourGameAddress, submitEthersSigner>>

\* C14: a submitScore call made while a submission is outstanding starts
\* nothing: the outstanding run keeps its position, its score and its
\* snapshot (so nothing is encrypted or sent for the new call), no error
\* outcome or message is produced, and the ledger is untouched.
C14_BusySubmitCallIsNoOp ==
    [][ (submitPc # "idle" /\ ~busySubmitCall /\ busySubmitCall') =>
            /\ UNCHANGED submitProgramState
            /\ UNCHANGED submitOutcome
            /\ UNCHANGED <<chainVars, envVars, characterVars>>
      ]_vars

\* C14 witness: submitScore was called while the transaction of a run was
\* pending, and that run is still the one outstanding.
C14_Witness ==
    /\ busySubmitCall
    /\ submitPc = "pending"
    /\ isSubmittingRef

\* A decryptScore run receives the record of its snapshot's signer, and the
\* handle in that record is the all-zero sentinel.
ZeroHandleRead ==
    /\ decryptPc = "getPlayerScore"
    /\ decryptPc' # "getPlayerScore"
    /\ decryptOutcome' # "failed"
    /\ getPlayerScore(thisEthersSigner).encryptedScore = ZeroHandle

\* C15 as stated: whenever the handle read is the all-zero sentinel, the run
\* ends at once (no signature request, no oracle call) with plaintext 0 as
\* the player's score.
C15_ZeroHandleYieldsZero ==
    [][ ZeroHandleRead => (decryptPc' = "idle" /\ playerScore' = "0") ]_vars

\* C15 amended: whenever the handle read is the all-zero sentinel, the run
\* ends at once (no signature request, no oracle call); plaintext 0 is
\* reported only for a record that exists, and for a never-submitted score
\* (no record) the run reports "No score found for this player" and leaves
\* playerScore as it was.
C15_ZeroHandleNoOracleCall ==
    [][ ZeroHandleRead =>
            /\ decryptPc' = "idle"
            /\ decryptOutcome' \in {"noRecord", "zeroHandle"}
            /\ IF getPlayerScore(thisEthersSigner).exists
               THEN playerScore' = "0" /\ message' = "Score: 0"
               ELSE /\ playerScore' = playerScore
                    /\ message' = "No score found for this player"
      ]_vars

\* C15 witness: a run for a never-submitted principal has ended on the
\* no-record path while playerScore still shows a decrypted score other
\* than 0.
C15_Witness ==
    /\ decryptOutcome = "noRecord"
    /\ decryptPc = "idle"
    /\ ethersSigner \in Principals
    /\ ~getPlayerScore(ethersSigner).exists
    /\ playerScore = "1"

\* ------------------------------------------------ claims: the leaderboard
RecordHolders == {p \in Principals : playerScores[p].exists}
PositionIn(seq, x) == CHOOSE i \in 1..Len(seq) : seq[i] = x
Min2(a, b) == IF a < b THEN a ELSE b

\* C16: the leaderboard built from one ledger state lists exactly the
\* principals that have a record, each once and with the timestamp of its
\* record, most recent first; entries of equal timestamp stand in the order
\* of first submission; the ranks are 1..n in that order.
C16_ProjectionOrdered ==
    LET L == project
        n == Len(L)
    IN  /\ {L[i].address : i \in 1..n} = RecordHolders
        /\ n = Cardinality(RecordHolders)
        /\ \A i \in 1..n :
              /\ L[i].rank = i
              /\ L[i].timestamp = playerScores[L[i].address].timestamp
        /\ \A i, j \in 1..n :
              i < j =>
                 \/ L[i].timestamp > L[j].timestamp
                 \/ /\ L[i].timestamp = L[j].timestamp
                    /\ PositionIn(_players, L[i].address)
                         < PositionIn(_players, L[j].address)

\* C16 witness: two principals hold records and the one that submitted first
\* is not the most recent, so the leaderboard reverses the player list.
C16_Witness ==
    /\ Len(project) = 2
    /\ project[1].address = _players[2]
    /\ project[1].timestamp > project[2].timestamp

\* The arguments of getLeaderboardRange whose sum fits an unsigned integer.
RangeArgs ==
    {a \in (0..UintMax) \X (0..UintMax) : a[1] + a[2] <= UintMax}

\* C17 as stated: getLeaderboardRange(start, count) is the slice, beginning
\* at position start, of the leaderboard ordered by timestamp descending.
C17_RangeIsSliceOfProjection ==
    \A a \in RangeArgs :
        LET r == getLeaderboardRange(a[1], a[2])
            n == IF a[1] >= Len(project) THEN 0
                 ELSE Min2(a[2], Len(project) - a[1])
        IN  /\ Len(r.players) = n
            /\ \A i \in 1..n : r.players[i] = project[a[1] + i].address

\* C17 amended: getLeaderboardRange(start, count) is the slice, beginning at
\* position start, of the player list in first-submission order (the order
\* in which getLeaderboard lists players), with the current handle and
\* timestamp of each listed player.
C17_RangeIsSliceOfPlayerList ==
    LET listed == getLeaderboard
        len == Len(_players)
    IN  \A a \in RangeArgs :
            LET r == getLeaderboardRange(a[1], a[2])
                n == Len(r.players)
            IN  /\ ~r.reverted
                /\ n = IF a[1] >= len THEN 0 ELSE Min2(a[2], len - a[1])
                /\ \A i \in 1..n :
                      /\ r.players[i] = listed.players[a[1] + i]
                      /\ r.timestamps[i] = listed.timestamps[a[1] + i]
                      /\ r.encryptedScores[i]
                            = getPlayerScore(r.players[i]).encryptedScore

\* C17 witness: the second listed player is the most recent submitter, so the
\* slice from position 1 holds a principal that the leaderboard ranks first.
C17_Witness ==
    /\ Len(_players) = 2
    /\ getLeaderboardRange(1, 1).players = <<_players[2]>>
    /\ project[1].address = _players[2]
    /\ project[2].address # _players[2]

\* C18: for every start and count of the unsigned range,
\* getLeaderboardRange does not fail; it returns nothing when start is at or
\* beyond the number of players, and min(count, length - start) entries
\* otherwise.
C18_RangeNeverFails ==
    \A start \in 0..UintMax, count \in 0..UintMax :
        LET r == getLeaderboardRange(start, count)
        IN  /\ ~r.reverted
            /\ Len(r.players) = IF start >= Len(_players) THEN 0
                                ELSE Min2(count, Len(_players) - start)

\* The public view computed from the log of <<principal, time>> pairs alone:
\* the principals of the log, by latest time descending and then by first
\* appearance, with ranks from 1.
ViewOfLog(log) ==
    LET ps == {log[i][1] : i \in 1..Len(log)}
        first(p) == CHOOSE i \in 1..Len(log) :
                       /\ log[i][1] = p
                       /\ \A k \in 1..(i - 1) : log[k][1] # p
        last(p) == CHOOSE i \in 1..Len(log) :
                       /\ log[i][1] = p
                       /\ \A k \in (i + 1)..Len(log) : log[k][1] # p
        before(q, p) ==
            \/ log[last(q)][2] > log[last(p)][2]
            \/ /\ log[last(q)][2] = log[last(p)][2]
               /\ first(q) < first(p)
        position(p) == 1 + Cardinality({q \in ps : before(q, p)})
    IN  [k \in 1..Cardinality(ps) |->
            LET p == CHOOSE q \in ps : position(q) = k
            IN  <<p, k, log[last(p)][2]>>]

\* The public part of a leaderboard: principal, rank and timestamp.
PublicPart(L) ==
    [i \in 1..Len(L) |-> <<L[i].address, L[i].rank, L[i].timestamp>>]

\* C20: the principals, ranks and timestamps of the leaderboard are a
\* function of the sequence of <<principal, time>> pairs of the submissions
\* alone, so two histories that agree on that sequence and differ in the
\* submitted plaintexts give the same leaderboard.
C20_ViewIgnoresPlaintext ==
    PublicPart(project) = ViewOfLog(submitLog)

\* C20 witness: the principal ranked first holds a lower plaintext than the
\* principal ranked second; ordering by plaintext would swap them.
C20_Witness ==
    /\ Len(project) = 2
    /\ StoredPlain(project[1].address) < StoredPlain(project[2].address)
    /\ project[1].timestamp > project[2].timestamp

\* ------------------------------------------ claims: the leaderboard fetch
\* The network or the configured contract differs from the snapshot of the
\* fetchLeaderboard run.
FetchContextChanged ==
    \/ chainId # fetchChainId
    \/ parkourGameRef # fetchParkourGameAddress

\* The ways a fetchLeaderboard run ends in which it has called setLeaderboard.
SetLeaderboardOutcomes == {"noPlayers", "noValidScores", "noEntries", "loaded"}

\* C12: while a fetchLeaderboard run is in flight and the network or the
\* configured contract differs from the run's snapshot, no step of the run
\* (whichever path it takes) sets the leaderboard state, be it to a new list
\* or to the empty list.
C12_NoStaleLeaderboardWrite ==
    [][ (fetchPc # "idle" /\ FetchContextChanged) =>
            /\ leaderboard' = leaderboard
            /\ (fetchPc' = "idle" => fetchOutcome' \notin SetLeaderboardOutcomes)
      ]_vars

\* C19: a fetchLeaderboard run during which no submission reached the
\* ledger, and which ends by setting the leaderboard, sets it to the
\* projection of the ledger as it is at that moment: nothing is carried over
\* from an earlier run, so two such runs with no submission between them show
\* the same list and a run after a submission shows the new state.
C19_FetchShowsCurrentLedger ==
    [][ (/\ fetchPc # "idle"
         /\ fetchPc' = "idle"
         /\ fetchOutcome' \in SetLeaderboardOutcomes
         /\ fetchStartTx = txCount) =>
            leaderboard' = project ]_vars

\* C19 witness: a run has loaded a leaderboard of two entries that equals the
\* projection of the ledger, after both submissions were applied.
C19_Witness ==
    /\ fetchOutcome = "loaded"
    /\ fetchPc = "idle"
    /\ txCount = 2
    /\ Len(leaderboard) = 2
    /\ leaderboard = project

\* ------------------------------------- claims: what the ledger's views show
\* C21 as stated: no entry of the leaderboard carries a ciphertext handle,
\* neither in the client's leaderboard nor in a result of
\* getLeaderboardRange.
C21_EntriesCarryNoHandle ==
    /\ \A i \in 1..Len(project) :
          "encryptedScoreHandle" \notin DOMAIN project[i]
    /\ \A a \in RangeArgs :
          getLeaderboardRange(a[1], a[2]).encryptedScores = <<>>

\* C21 amended: getLeaderboard returns principals and timestamps only; an
\* entry of the client's leaderboard consists of a principal, its rank, its
\* timestamp and the handle stored for that principal, and
\* getLeaderboardRange returns, beside principals and timestamps, the handle
\* stored for each returned principal.  The handles are returned as stored:
\* none is the result of a homomorphic operation of the view.
C21_EntriesCarryOwnHandle ==
    /\ DOMAIN getLeaderboard = {"players", "timestamps"}
    /\ \A i \in 1..Len(project) :
          /\ DOMAIN project[i]
                = {"address", "encryptedScoreHandle", "timestamp", "rank"}
          /\ project[i].encryptedScoreHandle
                = playerScores[project[i].address].encryptedScore
    /\ \A a \in RangeArgs :
          LET r == getLeaderboardRange(a[1], a[2])
          IN  /\ Len(r.encryptedScores) = Len(r.players)
              /\ \A i \in 1..Len(r.players) :
                    r.encryptedScores[i]
                       = playerScores[r.players[i]].encryptedScore

\* C21 witness: two principals hold different ciphertexts, neither of which
\* is the maximum's, and both views return the two handles.
C21_Witness ==
    /\ Len(project) = 2
    /\ project[1].encryptedScoreHandle # project[2].encryptedScoreHandle
    /\ project[1].encryptedScoreHandle # _maxEncryptedScore
    /\ Len(getLeaderboardRange(0, 2).encryptedScores) = 2

\* C22 as stated: the ledger neither holds nor returns a principal as the
\* holder of the maximum.
C22_NoTopPlayerHeld ==
    /\ _topPlayer = ZeroAddress
    /\ getTopPlayer.topPlayer = ZeroAddress

\* C22 amended: beside the ciphertext of the maximum, the ledger holds
\* _topPlayer, the principal of the first successful submission; it is set
\* once and never updated, and getTopPlayer returns it, with an all-zero
\* handle, as soon as a score has been submitted.  The ciphertext of the
\* maximum is returned by getMaxEncryptedScore only.
C22_TopPlayerIsFirstSubmitter ==
    /\ getMaxEncryptedScore = _maxEncryptedScore
    /\ getTopPlayer.maxScoreHandle = ZeroHandle
    /\ _hasTopPlayer = (submitLog # <<>>)
    /\ IF submitLog = <<>>
       THEN /\ _topPlayer = ZeroAddress
            /\ getTopPlayer.topPlayer = ZeroAddress
       ELSE /\ _topPlayer = submitLog[1][1]
            /\ _topPlayer = _players[1]
            /\ getTopPlayer.topPlayer = _topPlayer

\* C22 witness: the principal held and returned is the first submitter while
\* a later submitter holds the maximum.
C22_Witness ==
    /\ Len(_players) = 2
    /\ getTopPlayer.topPlayer = _players[1]
    /\ StoredPlain(_players[1]) < MaxPlain
    /\ StoredPlain(_players[2]) = MaxPlain

\* C23: once a score has been submitted, getTopPlayer returns a principal
\* whose stored plaintext score equals the plaintext of the maximum; it
\* returns the zero address only while no score has been submitted.
C23_TopPlayerHoldsMax ==
    IF submitLog = <<>>
    THEN getTopPlayer.topPlayer = ZeroAddress
    ELSE /\ getTopPlayer.topPlayer \in Principals
         /\ StoredPlain(getTopPlayer.topPlayer) = MaxPlain

\* ------------------------------------------ claims: decryption sessions
\* The session cached for a principal and the configured contract.
CachedFor(p) ==
    loadFromGenericStringStorage(signatureStorage, p, {SepoliaAddress})

\* A signature ceremony ends without a signature: rejected (loadOrSign
\* returns null) or failed (the awaited call throws).
CeremonyFails ==
    /\ decryptPc = "signTypedData"
    /\ decryptPc' = "idle"
    /\ decryptOutcome' \in {"noSignature", "failed"}

\* C24: when the signature ceremony is rejected or fails, the run reports
\* the failure in the status message, ends without calling the oracle and
\* without changing playerScore, saves no session, so that none is usable
\* for the run's identity, and clears the in-flight flag; a session becomes
\* usable only at the end of a ceremony that was signed, and a run that finds
\* no usable session starts the ceremony before it goes on.
C24_SignatureDenied ==
    [][ /\ CeremonyFails =>
           /\ message' \in {"Unable to build FHEVM decryption signature",
                            "Decryption failed"}
           /\ playerScore' = playerScore
           /\ signatureStorage' = signatureStorage
           /\ ~isValid(CachedFor(thisEthersSigner))
           /\ ~isDecryptingRef'
           /\ ~isDecrypting'
        /\ \A p \in Principals :
              (~isValid(CachedFor(p)) /\ CachedFor(p)' # CachedFor(p)) =>
                 /\ decryptPc = "signTypedData"
                 /\ pendingSig.userAddress = p
                 /\ ~CeremonyFails
        /\ (/\ decryptPc = "loadOrSign"
            /\ decryptPc' # "loadOrSign"
            /\ ~isValid(CachedFor(thisEthersSigner))) =>
              \/ decryptPc' = "signTypedData"
              \/ decryptPc' = "idle" /\ decryptOutcome' = "failed"
      ]_vars

\* C24 witness: the principal's earlier session has elapsed, the ceremony of
\* a later run was rejected, and playerScore still holds the plaintext of
\* the earlier run.
C24_Witness ==
    /\ decryptOutcome = "noSignature"
    /\ decryptPc = "idle"
    /\ ~isDecryptingRef
    /\ message = "Unable to build FHEVM decryption signature"
    /\ playerScore # Undefined
    /\ ethersSigner \in Principals
    /\ CachedFor(ethersSigner) # NoSig
    /\ ~isValid(CachedFor(ethersSigner))

\* ------------------------------------------------- claims: no retries
\* C25: a decryptScore run calls the oracle at most once and a submitScore
\* run sends at most one transaction; when the oracle call or the
\* transaction fails, the run ends in that step with the failure in the
\* status message and the in-flight flag cleared, and nothing is called
\* again.
C25_NoAutomaticRetry ==
    [][ /\ oracleCalls' <= 1
        /\ txSent' <= 1
        /\ (decryptPc = "userDecrypt" /\ decryptPc' = "idle"
               /\ decryptOutcome' = "failed") =>
              /\ message' = "Decryption failed"
              /\ oracleCalls' = 1
              /\ ~isDecryptingRef'
              /\ playerScore' = playerScore
        /\ (submitPc \in {"submitScore", "pending", "wait"}
               /\ submitPc' = "idle" /\ submitOutcome' = "failed") =>
              /\ message' = "Submit score failed"
              /\ txSent' = 1
              /\ ~isSubmittingRef'
        /\ decryptPc = "userDecrypt" => oracleCalls' = oracleCalls
        /\ submitPc \in {"submitScore", "pending", "wait"} => txSent' = txSent
      ]_vars

\* C25 witness: the oracle call of a decryptScore run and the transaction of
\* a submitScore run have both failed, each after one call.
C25_Witness ==
    /\ decryptPc = "idle"
    /\ decryptOutcome = "failed"
    /\ oracleCalls = 1
    /\ submitPc = "idle"
    /\ submitOutcome = "failed"
    /\ txSent = 1
    /\ message = "Submit score failed"

\* ------------------------------------------------ claims: reads are pure
\* C26: no step of a decryptScore run (the getPlayerScore read and the oracle
\* call included) and no step of a fetchLeaderboard run changes the player
\* list, a ScoreRecord, the maximum, the co-processor's inputs or the grant
\* set; the plaintext of a completed run is written to playerScore of the
\* client whose current identity is the one that made the request and holds
\* a grant on the handle, and it is the plaintext of the handle read.
C26_ReadsLeaveLedgerUnchanged ==
    [][ /\ decryptVars' # decryptVars => ledgerVars' = ledgerVars
        /\ fetchVars' # fetchVars => ledgerVars' = ledgerVars
        /\ (decryptPc = "userDecrypt" /\ decryptOutcome' = "decrypted") =>
              /\ ethersSigner = thisEthersSigner
              /\ <<handleString, ethersSigner>> \in acl
              /\ playerScore' = ToString(Plain(inputs, handleString))
              /\ leaderboard' = leaderboard
        /\ playerScore' # playerScore =>
              decryptPc = "userDecrypt" /\ decryptOutcome' = "decrypted"
      ]_vars

\* C26 witness: a decryptScore run has stored the plaintext 1 and a
\* fetchLeaderboard run has loaded the leaderboard of a ledger that holds a
\* record.
C26_Witness ==
    /\ decryptOutcome = "decrypted"
    /\ playerScore = "1"
    /\ fetchOutcome = "loaded"
    /\ Len(leaderboard) = 1
    /\ Len(_players) = 1
    /\ decryptPc = "idle"
    /\ fetchPc = "idle"

\* C27: while a decryptScore run waits for the oracle, the session it has
\* presented is bound to the identity of the run's snapshot and to the
\* snapshot's contract as its only scope, it is the session saved for that
\* identity and scope, and the handle requested is one on which that
\* identity and the contract hold a grant; the cache holds at most one
\* session for an identity and scope.
C27_SessionMatchesSnapshot ==
    /\ decryptPc = "userDecrypt" =>
          /\ oracleCalls = 1
          /\ sig.userAddress = thisEthersSigner
          /\ sig.contractAddresses = {thisParkourGameAddress}
          /\ sig = loadFromGenericStringStorage(signatureStorage,
                       thisEthersSigner, {thisParkourGameAddress})
          /\ <<handleString, thisEthersSigner>> \in acl
          /\ <<handleString, This>> \in acl
          /\ handleString # ZeroHandle
    /\ \A s1, s2 \in signatureStorage :
          (/\ s1.userAddress = s2.userAddress
           /\ s1.contractAddresses = s2.contractAddresses) => s1 = s2
    /\ \A s \in signatureStorage :
          /\ s.userAddress \in Principals
          /\ s.contractAddresses = {SepoliaAddress}

\* C27 witness: the cache holds a session of each of two identities, and the
\* run of the second identity presents its own.
C27_Witness ==
    /\ decryptPc = "userDecrypt"
    /\ Cardinality(signatureStorage) = 2
    /\ sig.userAddress = thisEthersSigner
    /\ \E s \in signatureStorage :
          s.userAddress # thisEthersSigner /\ isValid(s)

\* A session is cached for the exact key of the run's snapshot, the identity
\* and the contract as only scope, and its window has not elapsed.
SnapshotSessionUsable ==
    \E s \in signatureStorage :
        /\ s.userAddress = thisEthersSigner
        /\ s.contractAddresses = {thisParkourGameAddress}
        /\ clock < s.startTimestamp + s.durationDays

\* loadOrSign has read the cache and goes on (it did not throw).
LoadOrSignDecides ==
    /\ decryptPc = "loadOrSign"
    /\ decryptPc' # "loadOrSign"
    /\ decryptOutcome' # "failed"

\* C28: loadOrSign returns the cached session, without a signature request,
\* exactly when a session is cached for the exact (identity, scope) key and
\* its window has not elapsed; otherwise (no entry for the key, an entry of
\* another identity only, an elapsed window) it starts the signature
\* ceremony for a session that begins now, and the hook receives a session
\* only from the cache under these conditions or from a ceremony that ended
\* with a signature.
C28_CachedExactlyWhenValid ==
    [][ /\ (LoadOrSignDecides /\ SnapshotSessionUsable) =>
              /\ decryptPc' \in {"userDecrypt", "idle"}
              /\ pendingSig' = NoSig
              /\ signatureStorage' = signatureStorage
              /\ decryptPc' = "userDecrypt" =>
                    /\ sig' \in signatureStorage
                    /\ sig'.userAddress = thisEthersSigner
                    /\ sig'.contractAddresses = {thisParkourGameAddress}
        /\ (LoadOrSignDecides /\ ~SnapshotSessionUsable) =>
              /\ decryptPc' = "signTypedData"
              /\ sig' = NoSig
              /\ pendingSig'.userAddress = thisEthersSigner
              /\ pendingSig'.contractAddresses = {thisParkourGameAddress}
              /\ pendingSig'.startTimestamp = clock
              /\ signatureStorage' = signatureStorage
        /\ (sig' # sig /\ sig' # NoSig) =>
              \/ LoadOrSignDecides /\ SnapshotSessionUsable
              \/ /\ decryptPc = "signTypedData"
                 /\ sig' = pendingSig
                 /\ sig' \in signatureStorage'
      ]_vars

\* C28 witness: the ceremony runs for an identity whose cached session has
\* elapsed, while a session of another identity is cached and still valid.
C28_Witness ==
    /\ decryptPc = "signTypedData"
    /\ \E s \in signatureStorage :
          /\ s.userAddress = thisEthersSigner
          /\ clock >= s.startTimestamp + s.durationDays
    /\ \E s \in signatureStorage :
          /\ s.userAddress # thisEthersSigner
          /\ clock < s.startTimestamp + s.durationDays

\* ------------------------------------------- claims: order of submissions
\* C29: the submissions of a client that have been applied to the ledger
\* were applied in the order in which their runs were started, each at most
\* once: of two applied submissions of the same principal the one applied
\* first was issued first, every applied submission is one that was issued,
\* and the ledger's log of submissions lists the same senders in the same
\* order.
C29_AppliedInIssueOrder ==
    LET n == Len(appliedIssues)
    IN  /\ \A i, j \in 1..n :
              (i < j /\ appliedIssues[i][1] = appliedIssues[j][1]) =>
                 appliedIssues[i][2] < appliedIssues[j][2]
        /\ \A i, j \in 1..n : i # j => appliedIssues[i][2] # appliedIssues[j][2]
        /\ \A i \in 1..n : appliedIssues[i][2] \in 1..issueCount
        /\ n = Len(submitLog)
        /\ \A i \in 1..n : appliedIssues[i][1] = submitLog[i][1]
        /\ \A i \in 1..Len(mempool) :
              /\ mempool[i].issue \in 1..issueCount
              /\ \A j \in 1..n : appliedIssues[j][2] # mempool[i].issue

\* C29 witness: two submissions of one principal have both been applied and
\* the run of the second has ended with a failure.
C29_Witness ==
    /\ Len(appliedIssues) = 2
    /\ appliedIssues[1][1] = appliedIssues[2][1]
    /\ submitPc = "idle"
    /\ submitOutcome = "failed"
    /\ mempool = <<>>

\* ------------------------------------------ claims: stale submissions
\* The identity, the network or the configured contract differs from the
\* snapshot of the submitScore run.
SubmitContextChanged ==
    \/ ethersSigner # submitEthersSigner
    \/ chainId # submitChainId
    \/ parkourGameRef # submitParkourGameAddress

\* C30: when encryption completes under a changed identity, network or
\* contract, the run ends without sending a transaction and the ledger is
\* unchanged; contract.submitScore is called only under an unchanged
\* context, and every transaction the client sends is sent by the identity
\* of the snapshot to the contract of the snapshot, with the score of the
\* run encrypted for that contract and that identity.
C30_NoStaleSubmission ==
    [][ /\ (/\ submitPc = "encrypt"
            /\ submitPc' # "encrypt"
            /\ SubmitContextChanged) =>
              /\ submitPc' = "idle"
              /\ txSent' = txSent
              /\ mempool' = mempool
              /\ ledgerVars' = ledgerVars
              /\ submitOutcome' \in {"ignored", "failed"}
              /\ submitOutcome' = "ignored" =>
                    message' = "Ignore score submission"
        /\ txSent' > txSent =>
              /\ submitPc = "encrypt"
              /\ ~SubmitContextChanged
        /\ Len(mempool') > Len(mempool) =>
              LET tx == mempool'[Len(mempool')]
              IN  /\ submitPc = "submitScore"
                  /\ mempool' = Append(mempool, tx)
                  /\ tx.sender = submitEthersSigner
                  /\ tx.to = submitParkourGameAddress
                  /\ tx.encryptedFor = <<tx.to, tx.sender>>
                  /\ tx.score = submitArg
                  /\ tx.sender \in Principals
                  /\ tx.to = SepoliaAddress
      ]_vars

\* C30 witness: a run was ignored because the account changed while the
\* score was being encrypted; nothing was sent and the ledger is empty.
C30_Witness ==
    /\ submitOutcome = "ignored"
    /\ message = "Ignore score submission"
    /\ submitPc = "idle"
    /\ txSent = 0
    /\ issueCount = 1
    /\ mempool = <<>>
    /\ _players = <<>>

\* The current chain id is a key of the address file.
KnownNetwork == chainId # Undefined /\ chainId \in DOMAIN ParkourGameAddresses
EntryHasAddress ==
    /\ ParkourGameAddresses[chainId].address # Undefined
    /\ ParkourGameAddresses[chainId].address # ZeroAddress

\* A call of one of the four operations has started a run in this step.
RunStarts ==
    \/ submitPc = "idle" /\ submitPc' # "idle"
    \/ decryptPc = "idle" /\ decryptPc' # "idle"
    \/ fetchPc = "idle" /\ fetchPc' # "idle"
    \/ Len(mintRuns') > Len(mintRuns)

\* C31: isDeployed is false exactly on a known network whose entry has no
\* address or the zero address, true exactly on a known network with a
\* non-zero address, and undefined when the chain id is undefined or unknown;
\* when it is false or undefined no contract address is exposed and no call
\* of submitScore, decryptScore, fetchLeaderboard or mintCharacter starts a
\* run (the external calls are made by the runs).
C31_IsDeployedGuardsCalls ==
    /\ [](/\ isDeployed = "false" <=> (KnownNetwork /\ ~EntryHasAddress)
          /\ isDeployed = "true" <=> (KnownNetwork /\ EntryHasAddress)
          /\ isDeployed = Undefined <=> ~KnownNetwork
          /\ isDeployed # "true" => contractAddress = Undefined)
    /\ [][isDeployed # "true" => ~RunStarts]_vars

\* C31 witness: on a known network whose generated entry holds the zero
\* address, with an account, an instance and a character at hand, isDeployed
\* is false and no run is in flight; a run of each operation ended earlier.
C31_Witness ==
    /\ KnownNetwork
    /\ ParkourGameAddresses[chainId].address = ZeroAddress
    /\ isDeployed = "false"
    /\ ethersSigner = "A" /\ instance /\ hasCharacterState
    /\ submitOutcome = "failed" /\ decryptOutcome = "failed"
    /\ fetchOutcome = "failed" /\ Len(mintRuns) = 1
    /\ submitPc = "idle" /\ decryptPc = "idle" /\ fetchPc = "idle"

\* C32: after one game over, whatever renders, isSubmitting changes and
\* state updates follow, the auto-submit effect calls handleSubmitScore at
\* most once for that game.
C32_AutoSubmitOncePerGame == effectCalls <= 1

\* C32 witness: the run that the effect started for a finished game has
\* ended, isSubmitting is false again, the game is still over with its
\* score, and the effect has called handleSubmitScore once.
C32_Witness ==
    /\ gameIsGameOver /\ gameScore > 0
    /\ effectCalls = 1
    /\ submitOutcome \in {"submitted", "failed"}
    /\ ~isSubmitting
    /\ gameNo \in submittedGames

\* The player has a character, and a contract, an instance and a signer are
\* available.
CanSubmit ==
    /\ hasCharacterState
    /\ contractAddress # Undefined
    /\ instance
    /\ ethersSigner # Undefined

\* C33: every game that ends with a score above 0, whether started by Start,
\* Play Again or after Reset, eventually leads to a submitScore run for that
\* game's score, as long as the player has a character and a contract, an
\* instance and a signer are available when the effect has its turn (and
\* the player leaves the finished game on the screen).
C33_GameOverLeadsToSubmission ==
    \A g \in 1..(MaxGames + 1) :
        (/\ gameNo = g /\ gameIsGameOver /\ gameScore > 0
         /\ effectCalls = 0 /\ CanSubmit)
            ~> (\/ g \in submittedGames
                \/ ~CanSubmit
                \/ gameNo # g
                \/ ~gameIsGameOver)

\* C34: every accepted submitScore or decryptScore run eventually clears its
\* in-flight flag, on whichever path it ends, given that each awaited call
\* returns or throws; the flag is clear exactly when no run is suspended, and
\* with the flag clear a call made with a contract, an instance, a signer
\* (and, for submitScore, a character) is accepted.
C34_FlagsEventuallyCleared ==
    /\ isSubmittingRef ~> ~isSubmittingRef
    /\ isDecryptingRef ~> ~isDecryptingRef
    /\ [](isSubmittingRef <=> submitPc # "idle")
    /\ [](isDecryptingRef <=> decryptPc # "idle")
    /\ []((~isSubmittingRef /\ CanSubmit)
            => ENABLED (SubmitScoreCall(0) /\ isSubmittingRef'))
    /\ []((~isDecryptingRef /\ contractAddress # Undefined /\ instance
             /\ ethersSigner # Undefined)
            => ENABLED (DecryptScoreCall /\ isDecryptingRef'))

\* C34 witness: a second submitScore run was accepted after the first one
\* had ended, and was ignored as stale; a decryptScore run has ended without
\* a signature; both flags are clear.
C34_Witness ==
    /\ issueCount = 2
    /\ submitOutcome = "ignored"
    /\ ~isSubmittingRef
    /\ decryptOutcome = "noSignature"
    /\ ~isDecryptingRef

\* C35: after any sequence of submissions, the ciphertext stored in a
\* ScoreRecord is granted to no principal other than the record's owner (the
\* ledger contract itself aside).
C35_OnlyOwnerHoldsGrant ==
    \A p \in Principals :
        playerScores[p].exists =>
            \A g \in acl :
                g[1] = playerScores[p].encryptedScore => g[2] \in {p, This}

\* C35 witness: both principals hold a record, one of them the result of a
\* re-submission, and the latest submission came from the principal that
\* did not make the first one.
C35_Witness ==
    /\ \A p \in Principals : playerScores[p].exists
    /\ \E p \in Principals : playerScores[p].encryptedScore[1] = "sel"
    /\ txCount = 3
    /\ lastCall.result = "ok"
    /\ lastCall.sender # _topPlayer

\* The principals of the displayed leaderboard, each with its timestamp.
Displayed ==
    {<<leaderboard[i].address, leaderboard[i].timestamp>> :
        i \in 1..Len(leaderboard)}

\* The principals with a record after the first k submissions, each with the
\* timestamp of its record.
HeldAfter(k) ==
    LET view == ViewOfLog(SubSeq(submitLog, 1, k))
    IN  {<<view[i][1], view[i][3]>> : i \in 1..Len(view)}

\* C37: every leaderboard that a fetchLeaderboard run displays shows a set of
\* principals and timestamps that the ledger held at one moment, also when
\* submissions are applied between the run's read of the player list and its
\* reads of the players' records.
C37_DisplayIsOneLedgerState ==
    (fetchPc = "idle" /\ fetchOutcome = "loaded") =>
        \E k \in 0..Len(submitLog) : Displayed = HeldAfter(k)

\* A fetchLeaderboard run is suspended at one of its awaits.
FetchInFlight == fetchPc # "idle" \/ olderFetch.pc # "idle"

\* The run of the most recent call has completed and has set the leaderboard.
NewestHasDisplayed ==
    /\ fetchPc = "idle"
    /\ fetchOutcome \in SetLeaderboardOutcomes

\* isLoadingLeaderboard is set while a run is in flight.
LoadingWhileInFlight == FetchInFlight => isLoadingLeaderboard

\* The older run leaves alone what the run of the most recent call displayed.
OlderNeverReplaces ==
    (NewestHasDisplayed /\ olderFetch.pc # "idle") => leaderboard' = leaderboard

\* C36: when fetchLeaderboard calls overlap, the result of an older call never
\* replaces the leaderboard that the most recently issued call has displayed,
\* and isLoadingLeaderboard is true for as long as any run is in flight.
C36_NewestFetchWins ==
    /\ []LoadingWhileInFlight
    /\ [][OlderNeverReplaces]_vars

\* The runs of mintCharacter whose transaction is being sent or is pending.
MintsInFlight ==
    {i \in 1..Len(mintRuns) : mintRuns[i].pc \in {"mintCharacter", "wait"}}

\* A run of mintCharacter has not reached the end of its finally block.
MintOutstanding == \E i \in 1..Len(mintRuns) : mintRuns[i].pc # "done"

\* C38: a client has at most one mint transaction in flight, and a
\* mintCharacter call made while an earlier call is outstanding, the component
\* re-rendered or not, starts no run and so sends no transaction.
C38_OneMintInFlight ==
    /\ [](Cardinality(MintsInFlight) <= 1)
    /\ [][MintOutstanding => Len(mintRuns') = Len(mintRuns)]_vars

\* The networks of a chain id that have a recorded deployment, as positions
\* in the priority order.
DeployedAt(chain) ==
    {i \in 1..Len(networkPriority) :
        /\ NETWORK_CHAIN_IDS[networkPriority[i]] = chain
        /\ deployments[networkPriority[i]] # Undefined}

\* The address of the first network of a chain id, in priority order, that
\* has a deployment; undefined when none has.
FirstDeployed(chain) ==
    IF DeployedAt(chain) = {} THEN Undefined
    ELSE LET first == CHOOSE i \in DeployedAt(chain) :
                          \A j \in DeployedAt(chain) : i <= j
         IN  deployments[networkPriority[first]]

\* C39: in the address file generated from the recorded deployments, the entry
\* of chain id 31337, which localhost, hardhat and anvil share, carries the
\* address of the first of these networks in priority order that has a
\* deployment, and is undefined only when none of them has one.
C39_SharedChainIdEntry ==
    ParkourGameAddresses = generateAddressesFile(deployments) =>
        /\ Localhost \in DOMAIN ParkourGameAddresses
        /\ ParkourGameAddresses[Localhost].address = FirstDeployed(Localhost)

====
